---- MODULE Spec2Model ----
(***************************************************************************)
(* Dictationer: hotkey-toggled audio capture (AudioRecorder), the hotkey   *)
(* monitor (KeyboardRecorder), their RecordingController, and the held-key *)
(* ReformatterController, as state machines over the threads of the        *)
(* program.  A `with lock:` block whose body cannot block is one action;   *)
(* a body that waits (a join) holds the lock over several actions.         *)
(***************************************************************************)
EXTENDS Naturals, Integers, Sequences, FiniteSets, TLC

\* ------------------------------------------------------------------ bounds
MaxCapture == 3      \* capture threads ever started
MaxFrames == 2       \* chunks held by the frame buffer
MaxCalls == 4        \* direct start_recording/stop_recording calls by clients
MaxTriggers == 3     \* hotkey triggers delivered by the OS hook
MaxCtlTriggers == 2  \* of these, delivered while the controller's threads run
MaxStopCalls == 2    \* RecordingController.stop calls made by the second caller
MaxLiveTriggers == 1 \* hotkey triggers where termination is checked
MaxLiveStopCalls == 1 \* stop calls of the second caller where termination is checked
MaxTime == 6         \* seconds on the clock
MaxHolds == 2        \* times the ctrl key goes down
MaxTimers == 3       \* hold timers armed
MaxOps == 3          \* operations on the clipboard
MaxSegments == 2     \* segments of a transcription
MaxWorkflowHolds == 1 \* times the ctrl key goes down where the whole workflow runs

\* ---------------------------------------------------------------- constants
HoldDuration == 2    \* ReformatterController(hold_duration=2.0)
sample_rate == 16000 \* self.sample_rate
channels == 1        \* self.channels
chunk_size == 1024   \* self.chunk_size
SampleSize == 2      \* pyaudio.get_sample_size(pyaudio.paInt16)

\* ----------------------------------------------------------------- threads
Clients == {"c1", "c2"}          \* callers of the AudioRecorder API
Hooks == {"h1", "h2"}            \* OS hook contexts running toggle_recording
Ctls == {"main", "gui"}          \* callers of RecordingController.stop
PasteWorkers == {"w1", "w2"}     \* paste threads of two transcriptions
Pollers == {"status"}            \* the StatusMonitor thread of RecordingController
Threads == Clients \cup Hooks \cup Ctls \cup Pollers
CapIds == 1..MaxCapture
NoThread == 0
Free == "free"

VARIABLES
    \* AudioRecorder
    _recording,      \* self._recording
    _frames,         \* self._frames: sequence of the ids of the capture threads that appended
    _thread,         \* self._thread: id of the last started capture thread, NoThread if none alive-able
    audio_lock,      \* AudioRecorder._thread_lock: Free or the holder
    processor,       \* self.processor is not None
    cap,             \* position of each capture thread in _record
    started,         \* capture threads created so far
    wav,             \* content of output_file
    saves,           \* files written
    jobs,            \* transcription workers spawned
    warned,          \* warnings logged: ignored start, ignored stop, no data to save
    transcribes,     \* calls of transcribe_file made by the transcription workers
    indicator,       \* the state the status indicator was last told to display
    transcribing,    \* transcription workers that are inside transcribe_file
    \* KeyboardRecorder
    recording_state, \* self.recording_state
    kb_lock,         \* KeyboardRecorder._thread_lock: Free or the holder
    kb_running,      \* KeyboardRecorder._running
    monitor,         \* position of the KeyboardMonitor thread in _monitor_keyboard
    hooked,          \* the hotkey is registered with the keyboard library
    triggers,        \* hotkey triggers delivered so far
    cbLog,           \* the values the callback was invoked with, in order
    cbErrors,        \* indices of cbLog whose invocation raised ("Error in callback execution")
    escaped,         \* an exception left toggle_recording into the hook caller
    callback,        \* self.callback
    cbWrites,        \* per hook thread: self.callback when its trigger began, then the
                     \* callbacks stored until the trigger made its invocation
    invoked,         \* the invocations of the callback made so far, in order
    strays,          \* earlier KeyboardMonitor threads that are still alive, by position
    \* RecordingController and the main thread
    ctl_running,     \* RecordingController._running
    _shutdown_lock,  \* RecordingController._shutdown_lock: Free or the holder
    shutdownLog,     \* the steps of stop() in the order they were logged
    entrySession,    \* the session active when the shutdown sequence began, 0 if none
    stopCalls,       \* stop() calls made by the second caller
    returned,        \* stop() calls that have returned
    mainExc,         \* exception in flight in the main thread
    exited,          \* the process has exited
    \* ReformatterController
    hold_duration,   \* self.hold_duration
    ctrl_pressed,    \* self.ctrl_pressed
    press_start_time,\* self.press_start_time, None if unset
    monitoring_hotkey,           \* self.monitoring_hotkey, the gate
    _monitoring_disabled_warned, \* self._monitoring_disabled_warned
    gemini,          \* self.gemini_reformatter is not None
    timers,          \* the timer threads asleep in check_hold_duration
    armed,           \* timer threads started so far
    workers,         \* run_gemini_reformatting threads in flight
    now,             \* time.time()
    keyDown,         \* the ctrl key is down
    holdId,          \* number of the current (or last) key-down to key-up interval
    holdStart,       \* when each hold began
    holdEnd,         \* when each hold ended, None while it lasts
    trigs,           \* how often the workflow was triggered during each hold
    hookPc,          \* position of the hook thread: not hooked yet, idle, or in on_ctrl_press
    staleNoop,       \* a timer armed in an earlier hold fired without effect during a later one
    outcomes,        \* how the workflows that have ended so far ended
    armedInFlight,   \* a timer was armed while a workflow was in flight
    resetting,       \* workers that have reopened the gate and not yet reset the warning flag
    msgs,            \* "monitoring disabled" messages printed since the gate was last closed
    \* the clipboard, ClipboardPaster, GeminiReformatter, AudioProcessor
    clipboard,       \* the text on the OS clipboard
    _saved_clipboard,    \* ClipboardPaster._saved_clipboard
    _original_clipboard, \* GeminiReformatter._original_clipboard
    clipPc,          \* position of the thread working on the clipboard
    caller,          \* the last operation: user, direct, process, transcribe
    text,            \* paste_text's argument
    selection,       \* the text selected in the active application
    selected_text,   \* process(): what copy_selected_text returned
    delivered,       \* what the simulated Ctrl+V keystrokes pasted, in order
    before,          \* the clipboard when paste_text was entered
    preHold,         \* the clipboard when process() was entered
    result,          \* what paste_text returned
    procResult,      \* how process() ended
    faults,          \* the steps of the current operation that failed
    ops,             \* operations so far
    paster,          \* AudioProcessor.paster is not None
    segments,        \* the segment texts of the last transcription
    txFailed,        \* the last transcription failed
    txPasted,        \* a paste thread was started for the last transcription
    steps,           \* the steps of the current operation, each with its success
    \* the paste threads started by transcribe_file
    pw,              \* each paste thread's position in paste_text and what its keystroke pasted
    \* the keyboard library's hooks and the ShortcutRecorderThread
    ctrl_hooks,      \* the hooks of ReformatterController.start() are registered
    srPc,            \* position of the ShortcutRecorderThread in run()
    is_recording,    \* ShortcutRecorderThread.is_recording
    \* threads
    pc,              \* position of each calling thread
    ret,             \* where the thread continues when stop_recording/start_recording returns
    calls            \* client calls made

audioVars == <<_recording, _frames, _thread, audio_lock, processor, cap, started,
               wav, saves, jobs, warned, transcribes, indicator, transcribing>>
kbApiVars == <<callback, cbWrites, invoked, strays>>
kbVars == <<recording_state, kb_lock, kb_running, monitor, hooked, triggers, cbLog,
            cbErrors, escaped, kbApiVars>>
ctlVars == <<ctl_running, _shutdown_lock, shutdownLog, entrySession, stopCalls,
             returned, mainExc, exited>>
threadVars == <<pc, ret, calls>>
recVars == <<audioVars, kbVars, ctlVars, threadVars>>
reVars == <<hold_duration, ctrl_pressed, press_start_time, monitoring_hotkey,
            _monitoring_disabled_warned, gemini, timers, armed, workers, now, keyDown,
            holdId, holdStart, holdEnd, trigs, hookPc, staleNoop, outcomes, armedInFlight,
            resetting, msgs>>
clipVars == <<clipboard, _saved_clipboard, _original_clipboard, clipPc, caller, text,
              selection, selected_text, delivered, before, preHold, result, procResult,
              faults, ops, paster, segments, txFailed, txPasted, steps>>
poolVars == <<pw>>
hookVars == <<ctrl_hooks, srPc, is_recording>>
vars == <<recVars, reVars, clipVars, poolVars, hookVars>>

\* a step of the recording process: it has not exited, and the reformatter
\* and the clipboard, which share no state with it, stay as they are
Running == ~exited /\ UNCHANGED <<reVars, clipVars, poolVars, hookVars>>

\* ------------------------------------------------------------ AudioRecorder
CapAlive(k) == k # NoThread /\ cap[k] \notin {"unborn", "unstarted", "done"}
InLoop(k) == cap[k] \in {"loop", "read"}

\* start_recording without its `if self._recording` guard
StartIgnored_Restarts(t) ==
    /\ _recording
    /\ started < MaxCapture
    /\ _frames' = <<>>
    /\ started' = started + 1
    /\ _thread' = started + 1
    /\ cap' = [cap EXCEPT ![started + 1] = "init"]
    /\ pc' = [pc EXCEPT ![t] = ret[t]]
    /\ indicator' = "recording"
    /\ UNCHANGED <<_recording, warned>>

\* with self._thread_lock: if self._recording: warn, return
StartIgnored(t) ==
    /\ _recording
    /\ warned' = warned \cup {"start"}
    /\ pc' = [pc EXCEPT ![t] = ret[t]]
    /\ UNCHANGED <<_recording, _frames, _thread, cap, started, indicator>>

\* self._recording = True; self._frames = []; self._thread = Thread(...); start();
\* show_recording()
StartFresh(t) ==
    /\ ~_recording
    /\ started < MaxCapture
    /\ _recording' = TRUE
    /\ _frames' = <<>>
    /\ started' = started + 1
    /\ _thread' = started + 1
    /\ cap' = [cap EXCEPT ![started + 1] = "init"]
    /\ pc' = [pc EXCEPT ![t] = ret[t]]
    /\ indicator' = "recording"
    /\ UNCHANGED warned

\* the same, with Thread.start() raising (RuntimeError: can't start new thread):
\* the flag is set, the buffer cleared, self._thread is an unstarted thread
\* (is_alive() False), and the exception leaves the `with` block
StartFails(t) ==
    /\ ~_recording
    /\ started < MaxCapture
    /\ _recording' = TRUE
    /\ _frames' = <<>>
    /\ started' = started + 1
    /\ _thread' = started + 1
    /\ cap' = [cap EXCEPT ![started + 1] = "unstarted"]
    /\ pc' = [pc EXCEPT ![t] = IF t \in Hooks THEN "cb_except" ELSE ret[t]]
    /\ UNCHANGED <<warned, indicator>>

StartRecording(t) ==
    /\ Running
    /\ pc[t] = "start_wait"
    /\ audio_lock = Free
    /\ \/ StartIgnored(t)
       \/ StartFresh(t)
       \/ StartFails(t)
    /\ UNCHANGED <<audio_lock, processor, wav, saves, jobs, transcribes, transcribing,
                   ret, calls, kbVars, ctlVars>>

\* with self._thread_lock: if not self._recording: warn, return
StopIgnored(t) ==
    /\ ~_recording
    /\ warned' = warned \cup {"stop"}
    /\ pc' = [pc EXCEPT ![t] = ret[t]]
    /\ UNCHANGED <<_recording, audio_lock>>

\* self._recording = False; if self._thread and self._thread.is_alive(): join
StopBegin(t) ==
    /\ _recording
    /\ _recording' = FALSE
    /\ audio_lock' = t
    /\ pc' = [pc EXCEPT ![t] = IF CapAlive(_thread) THEN "stop_join" ELSE "stop_save"]
    /\ UNCHANGED warned

StopRecording(t) ==
    /\ Running
    /\ pc[t] = "stop_wait"
    /\ audio_lock = Free
    /\ \/ StopIgnored(t)
       \/ StopBegin(t)
    /\ UNCHANGED <<_frames, _thread, processor, cap, started, wav, saves, jobs, transcribes,
                   indicator, transcribing,
                   ret, calls,
                   kbVars, ctlVars>>

\* join() without a timeout
StopJoin_NoTimeout(t) ==
    /\ Running
    /\ pc[t] = "stop_join"
    /\ ~CapAlive(_thread)
    /\ pc' = [pc EXCEPT ![t] = "stop_save"]
    /\ UNCHANGED <<audioVars, ret, calls, kbVars, ctlVars>>

\* self._thread.join(timeout=3.0): returns when the thread has ended, or after
\* 3 seconds with the thread still alive.
StopJoin(t) ==
    /\ Running
    /\ pc[t] = "stop_join"
    /\ pc' = [pc EXCEPT ![t] = "stop_save"]
    /\ UNCHANGED <<audioVars, ret, calls, kbVars, ctlVars>>

\* a stream whose read returns one byte for each sample
StreamRead_Bytes(n) == n

\* self._stream.read(n): n samples of every channel, SampleSize bytes each
StreamRead(n) == n * channels * SampleSize

\* len(b''.join(frames)), every frame being what one read of chunk_size gave
RECURSIVE JoinedLength(_)
JoinedLength(frames) ==
    IF frames = <<>> THEN 0 ELSE StreamRead(chunk_size) + JoinedLength(Tail(frames))

\* the parameters _save_recording sets on the file, and what a reader of the
\* file finds: the data bytes and the sample frames they make
WavParams == [nchannels |-> channels, sampwidth |-> SampleSize, framerate |-> sample_rate]
WavDataBytes == JoinedLength(wav)
WavSampleFrames == WavDataBytes \div (WavParams.nchannels * WavParams.sampwidth)

\* _save_recording that writes the file whatever the buffer holds
SaveRecording_NoEmptyGuard ==
    /\ wav' = _frames
    /\ saves' = saves + 1
    /\ jobs' = (IF processor THEN jobs + 1 ELSE jobs)
    /\ UNCHANGED warned

\* _save_recording: nothing but a warning for an empty buffer; else the frames
\* joined into the file and, with a processor, one transcription thread; if
\* creating the directory or writing the file raises, the error is logged, the
\* file is as it was or truncated, and no thread is started.
SaveRecording ==
    IF _frames = <<>>
    THEN /\ warned' = warned \cup {"nodata"}
         /\ UNCHANGED <<wav, saves, jobs>>
    ELSE \/ /\ wav' = _frames
            /\ saves' = saves + 1
            /\ jobs' = (IF processor THEN jobs + 1 ELSE jobs)
            /\ UNCHANGED warned
         \/ /\ wav' \in {wav, <<>>}
            /\ UNCHANGED <<saves, jobs, warned>>

\* the rest of stop_recording: save, hide the indicator, leave the lock
StopSave(t) ==
    /\ Running
    /\ pc[t] = "stop_save"
    /\ SaveRecording
    /\ indicator' = "hidden"
    /\ audio_lock' = Free
    /\ pc' = [pc EXCEPT ![t] = ret[t]]
    /\ UNCHANGED <<_recording, _frames, _thread, processor, cap, started, transcribes,
                   transcribing, ret, calls,
                   kbVars, ctlVars>>

\* _record: PyAudio() and open(); a failure forces the flag back to False
CapOpen(k) ==
    /\ Running
    /\ cap[k] = "init"
    /\ \/ /\ cap' = [cap EXCEPT ![k] = "loop"]
          /\ UNCHANGED _recording
       \/ /\ cap' = [cap EXCEPT ![k] = "done"]
          /\ _recording' = FALSE
    /\ UNCHANGED <<_frames, _thread, audio_lock, processor, started, wav, saves, jobs,
                   warned, transcribes, indicator, transcribing, threadVars, kbVars, ctlVars>>

\* while self._recording:
CapLoop(k) ==
    /\ Running
    /\ cap[k] = "loop"
    /\ cap' = [cap EXCEPT ![k] = IF _recording THEN "read" ELSE "done"]
    /\ UNCHANGED <<_recording, _frames, _thread, audio_lock, processor, started, wav,
                   saves, jobs, warned, transcribes, indicator,
                   transcribing, threadVars, kbVars, ctlVars>>

\* data = self._stream.read(...); self._frames.append(data)   |  except: break
CapRead(k) ==
    /\ Running
    /\ cap[k] = "read"
    /\ \/ /\ Len(_frames) < MaxFrames
          /\ _frames' = Append(_frames, k)
          /\ cap' = [cap EXCEPT ![k] = "loop"]
       \/ /\ cap' = [cap EXCEPT ![k] = "done"]
          /\ UNCHANGED _frames
    /\ UNCHANGED <<_recording, _thread, audio_lock, processor, started, wav, saves, jobs,
                   warned, transcribes, indicator, transcribing, threadVars, kbVars, ctlVars>>

\* a transcription worker that calls transcribe_file again after a failure
TranscribeDone_Retries ==
    /\ Running
    /\ jobs > 0
    /\ transcribes <= MaxCapture
    /\ transcribing > 0
    /\ transcribes' = transcribes + 1
    /\ \E ok \in BOOLEAN :
          /\ jobs' = (IF ok THEN jobs - 1 ELSE jobs)
          /\ transcribing' = (IF ok THEN transcribing - 1 ELSE transcribing)
          /\ indicator' = (IF ok THEN "hidden" ELSE "transcribing")
    /\ UNCHANGED <<_recording, _frames, _thread, audio_lock, processor, cap, started, wav,
                   saves, warned, threadVars, kbVars, ctlVars>>

\* a transcription worker (_transcribe_recording) calls transcribe_file, which
\* begins with show_transcribing()
TranscribeBegin ==
    /\ Running
    /\ transcribing < jobs
    /\ transcribing' = transcribing + 1
    /\ indicator' = "transcribing"
    /\ UNCHANGED <<_recording, _frames, _thread, audio_lock, processor, cap, started, wav,
                   saves, jobs, warned, transcribes, threadVars, kbVars, ctlVars>>

\* transcribe_file, called once, ends with hide_indicator() in its finally
\* clause; the worker reports the result, text or none, or the exception it
\* raised, and ends
TranscribeDone ==
    /\ Running
    /\ transcribing > 0
    /\ jobs' = jobs - 1
    /\ transcribing' = transcribing - 1
    /\ indicator' = "hidden"
    /\ transcribes' = transcribes + 1
    /\ UNCHANGED <<_recording, _frames, _thread, audio_lock, processor, cap, started, wav,
                   saves, warned, threadVars, kbVars, ctlVars>>

\* a client calls start_recording() or stop_recording()
ClientCall(t) ==
    /\ Running
    /\ t \in Clients
    /\ pc[t] = "idle"
    /\ calls < MaxCalls
    /\ calls' = calls + 1
    /\ \E op \in {"start_wait", "stop_wait"} : pc' = [pc EXCEPT ![t] = op]
    /\ ret' = [ret EXCEPT ![t] = "idle"]
    /\ UNCHANGED <<audioVars, kbVars, ctlVars>>

\* --------------------------------------------------------- KeyboardRecorder
\* the keyboard library calls toggle_recording for a press of the hotkey
HotkeyTrigger(h) ==
    /\ Running
    /\ pc[h] = "idle"
    /\ hooked
    /\ triggers < MaxTriggers
    /\ triggers' = triggers + 1
    /\ pc' = [pc EXCEPT ![h] = "kb_toggle"]
    /\ cbWrites' = [cbWrites EXCEPT ![h] = <<callback>>]
    /\ UNCHANGED <<audioVars, ctlVars, ret, calls, recording_state, kb_lock, kb_running,
                   monitor, hooked, cbLog, cbErrors, escaped, callback, invoked, strays>>

\* toggle_recording without `with self._thread_lock`
KbToggle_NoLock(h) ==
    /\ Running
    /\ pc[h] = "kb_toggle"
    /\ recording_state' = ~recording_state
    /\ pc' = [pc EXCEPT ![h] = "cb_call"]
    /\ UNCHANGED <<audioVars, ctlVars, ret, calls, kb_lock, kb_running, monitor, hooked,
                   triggers, cbLog, cbErrors, escaped, kbApiVars>>

\* with self._thread_lock: self.recording_state = not self.recording_state
KbToggle(h) ==
    /\ Running
    /\ pc[h] = "kb_toggle"
    /\ kb_lock = Free
    /\ kb_lock' = h
    /\ recording_state' = ~recording_state
    /\ pc' = [pc EXCEPT ![h] = "cb_call"]
    /\ UNCHANGED <<audioVars, ctlVars, ret, calls, kb_running, monitor, hooked, triggers,
                   cbLog, cbErrors, escaped, kbApiVars>>

\* toggle_recording reading self.callback once, when it is entered
Invocation_AtEntry(h) ==
    [cb |-> Head(cbWrites[h]), writes |-> cbWrites[h], state |-> recording_state]

\* if self.callback: self.callback(self.recording_state): the attribute is read
\* when the invocation is made
Invocation(h) == [cb |-> callback, writes |-> cbWrites[h], state |-> recording_state]

\* self.callback(self.recording_state), the callback being
\* AudioRecorder.toggle_recording(state): it reads _recording without the lock
AudioToggle(h) ==
    /\ Running
    /\ pc[h] = "cb_call"
    /\ callback = "audio"
    /\ cbLog' = Append(cbLog, recording_state)
    /\ invoked' = Append(invoked, Invocation(h))
    /\ pc' = [pc EXCEPT ![h] =
                IF recording_state /\ ~_recording THEN "start_wait"
                ELSE IF ~recording_state /\ _recording THEN "stop_wait"
                ELSE "cb_ret"]
    /\ ret' = [ret EXCEPT ![h] = "cb_ret"]
    /\ UNCHANGED <<audioVars, ctlVars, calls, recording_state, kb_lock, kb_running,
                   monitor, hooked, triggers, cbErrors, escaped, callback, cbWrites,
                   strays>>

\* self.callback(self.recording_state), the callback being one set through
\* set_callback after construction: it returns or raises
InvokeCallback(h) ==
    /\ Running
    /\ pc[h] = "cb_call"
    /\ callback # "audio"
    /\ cbLog' = Append(cbLog, recording_state)
    /\ invoked' = Append(invoked, Invocation(h))
    /\ \E next \in {"cb_ret", "cb_except"} : pc' = [pc EXCEPT ![h] = next]
    /\ UNCHANGED <<audioVars, ctlVars, ret, calls, recording_state, kb_lock, kb_running,
                   monitor, hooked, triggers, cbErrors, escaped, callback, cbWrites,
                   strays>>

\* the callback returned: "Callback executed successfully", the lock is left
CallbackReturned(h) ==
    /\ Running
    /\ pc[h] = "cb_ret"
    /\ kb_lock' = Free
    /\ pc' = [pc EXCEPT ![h] = "idle"]
    /\ UNCHANGED <<audioVars, ctlVars, ret, calls, recording_state, kb_running, monitor,
                   hooked, triggers, cbLog, cbErrors, escaped, kbApiVars>>

\* toggle_recording without the try/except around the callback
CallbackRaised_Propagates(h) ==
    /\ Running
    /\ pc[h] = "cb_except"
    /\ escaped' = TRUE
    /\ kb_lock' = Free
    /\ pc' = [pc EXCEPT ![h] = "idle"]
    /\ UNCHANGED <<audioVars, ctlVars, ret, calls, recording_state, kb_running, monitor,
                   hooked, triggers, cbLog, cbErrors, kbApiVars>>

\* except Exception as e: the error is logged, the lock is left
CallbackRaised(h) ==
    /\ Running
    /\ pc[h] = "cb_except"
    /\ cbErrors' = cbErrors \cup {Len(cbLog)}
    /\ kb_lock' = Free
    /\ pc' = [pc EXCEPT ![h] = "idle"]
    /\ UNCHANGED <<audioVars, ctlVars, ret, calls, recording_state, kb_running, monitor,
                   hooked, triggers, cbLog, escaped, kbApiVars>>

\* _monitor_keyboard: keyboard.add_hotkey(self.hotkey, self.toggle_recording)
MonitorRegister ==
    /\ Running
    /\ monitor = "start"
    /\ hooked' = TRUE
    /\ monitor' = "loop"
    /\ UNCHANGED <<audioVars, ctlVars, threadVars, recording_state, kb_lock, kb_running,
                   triggers, cbLog, cbErrors, escaped, kbApiVars>>

\* while self._running: time.sleep(0.1)
MonitorExit ==
    /\ Running
    /\ monitor = "loop"
    /\ ~kb_running
    /\ monitor' = "done"
    /\ UNCHANGED <<audioVars, ctlVars, threadVars, recording_state, kb_lock, kb_running,
                   hooked, triggers, cbLog, cbErrors, escaped, kbApiVars>>

\* KeyboardRecorder.stop: with the lock, self._running = False, then the join
KbStop(c) ==
    /\ Running
    /\ pc[c] = "ctl_kbstop"
    /\ kb_lock = Free
    /\ kb_lock' = c
    /\ kb_running' = FALSE
    /\ shutdownLog' = IF c \in Ctls THEN Append(shutdownLog, "stopping_keyboard")
                      ELSE shutdownLog
    /\ pc' = [pc EXCEPT ![c] = IF monitor \in {"start", "loop"} THEN "kb_join" ELSE "kb_unhook"]
    /\ UNCHANGED <<audioVars, ret, calls, recording_state, monitor, hooked, triggers, cbLog,
                   cbErrors, escaped, ctl_running, _shutdown_lock, entrySession, stopCalls,
                   returned, mainExc, exited, kbApiVars>>

\* self._thread.join(timeout=2.0): the thread has ended, or 2 seconds passed
KbJoin(c) ==
    /\ Running
    /\ pc[c] = "kb_join"
    /\ pc' = [pc EXCEPT ![c] = "kb_unhook"]
    /\ UNCHANGED <<audioVars, kbVars, ctlVars, ret, calls>>

\* stop() that also puts recording_state back to False
KbUnhook_ResetsState(c) ==
    /\ ~exited
    /\ pc[c] = "kb_unhook"
    /\ hooked' = FALSE
    /\ ctrl_hooks' = FALSE
    /\ recording_state' = FALSE
    /\ kb_lock' = Free
    /\ shutdownLog' = IF c \in Ctls THEN Append(shutdownLog, "hooks_removed") ELSE shutdownLog
    /\ pc' = [pc EXCEPT ![c] = IF c \in Ctls THEN "ctl_cleanup" ELSE "idle"]
    /\ UNCHANGED <<audioVars, ret, calls, kb_running, monitor, triggers,
                   cbLog, cbErrors, escaped, ctl_running, _shutdown_lock, entrySession,
                   stopCalls, returned, mainExc, exited, kbApiVars,
                   reVars, clipVars, poolVars, srPc, is_recording>>

\* keyboard.unhook_all(), which removes every hook registered in the process,
\* then the lock is left
KbUnhook(c) ==
    /\ ~exited
    /\ pc[c] = "kb_unhook"
    /\ hooked' = FALSE
    /\ ctrl_hooks' = FALSE
    /\ kb_lock' = Free
    /\ shutdownLog' = IF c \in Ctls THEN Append(shutdownLog, "hooks_removed") ELSE shutdownLog
    /\ pc' = [pc EXCEPT ![c] = IF c \in Ctls THEN "ctl_cleanup" ELSE "idle"]
    /\ UNCHANGED <<audioVars, ret, calls, recording_state, kb_running, monitor, triggers,
                   cbLog, cbErrors, escaped, ctl_running, _shutdown_lock, entrySession,
                   stopCalls, returned, mainExc, exited, kbApiVars,
                   reVars, clipVars, poolVars, srPc, is_recording>>

\* the callbacks a caller of set_callback hands over
Callbacks == {"f", "g"}

\* a caller calls KeyboardRecorder.start() or KeyboardRecorder.stop()
KbApiCall(t) ==
    /\ Running
    /\ t \in Clients
    /\ pc[t] = "idle"
    /\ calls < MaxCalls
    /\ calls' = calls + 1
    /\ \E op \in {"kbs_wait", "ctl_kbstop"} : pc' = [pc EXCEPT ![t] = op]
    /\ UNCHANGED <<audioVars, kbVars, ctlVars, ret>>

\* start() without its `if self._running: return`
KbStart_NoGuard(t) ==
    /\ Running
    /\ pc[t] = "kbs_wait"
    /\ kb_lock = Free
    /\ kb_running' = TRUE
    /\ monitor' = "start"
    /\ strays' = IF monitor \in {"start", "loop"}
                 THEN [strays EXCEPT ![monitor] = @ + 1] ELSE strays
    /\ pc' = [pc EXCEPT ![t] = "idle"]
    /\ UNCHANGED <<audioVars, ctlVars, ret, calls, recording_state, kb_lock, hooked,
                   triggers, cbLog, cbErrors, escaped, callback, cbWrites, invoked>>

\* start(): with the lock, if self._running: return; otherwise _running = True
\* and a new KeyboardMonitor thread is started.  The thread an earlier stop()
\* gave up joining is no longer self._thread, but it is still there
KbStart(t) ==
    /\ Running
    /\ pc[t] = "kbs_wait"
    /\ kb_lock = Free
    /\ IF kb_running
       THEN UNCHANGED <<kb_running, monitor, strays>>
       ELSE /\ kb_running' = TRUE
            /\ monitor' = "start"
            /\ strays' = IF monitor \in {"start", "loop"}
                         THEN [strays EXCEPT ![monitor] = @ + 1] ELSE strays
    /\ pc' = [pc EXCEPT ![t] = "idle"]
    /\ UNCHANGED <<audioVars, ctlVars, ret, calls, recording_state, kb_lock, hooked,
                   triggers, cbLog, cbErrors, escaped, callback, cbWrites, invoked>>

\* an earlier KeyboardMonitor thread gets to keyboard.add_hotkey
StrayRegister ==
    /\ Running
    /\ strays.start > 0
    /\ hooked' = TRUE
    /\ strays' = [start |-> strays.start - 1, loop |-> strays.loop + 1]
    /\ UNCHANGED <<audioVars, ctlVars, threadVars, recording_state, kb_lock, kb_running,
                   monitor, triggers, cbLog, cbErrors, escaped, callback, cbWrites,
                   invoked>>

\* an earlier KeyboardMonitor thread finds self._running false and ends
StrayExit ==
    /\ Running
    /\ strays.loop > 0
    /\ ~kb_running
    /\ strays' = [strays EXCEPT !.loop = @ - 1]
    /\ UNCHANGED <<audioVars, ctlVars, threadVars, recording_state, kb_lock, kb_running,
                   monitor, hooked, triggers, cbLog, cbErrors, escaped, callback,
                   cbWrites, invoked>>

\* get_state(): with the lock, return self.recording_state
KbGetState(t) ==
    /\ Running
    /\ t \in Clients
    /\ pc[t] = "idle"
    /\ calls < MaxCalls
    /\ kb_lock = Free
    /\ calls' = calls + 1
    /\ UNCHANGED <<audioVars, kbVars, ctlVars, pc, ret>>

\* set_callback(f): self.callback = callback, without the lock
SetCallback(t, f) ==
    /\ Running
    /\ t \in Clients
    /\ pc[t] = "idle"
    /\ calls < MaxCalls
    /\ calls' = calls + 1
    /\ callback' = f
    /\ cbWrites' = [h \in Hooks |-> IF pc[h] \in {"kb_toggle", "cb_call"}
                                    THEN Append(cbWrites[h], f) ELSE cbWrites[h]]
    /\ UNCHANGED <<audioVars, ctlVars, pc, ret, recording_state, kb_lock, kb_running,
                   monitor, hooked, triggers, cbLog, cbErrors, escaped, invoked, strays>>

\* ------------------------------------------------------ RecordingController
CtlRet(c) == IF c = "main" THEN "m_after" ELSE "idle"

\* start(): keyboard.start() (with the lock: _running = True, thread started),
\* then the main loop
CtlStart ==
    /\ Running
    /\ pc["main"] = "m_new"
    /\ kb_lock = Free
    /\ kb_running' = TRUE
    /\ monitor' = "start"
    /\ pc' = [pc EXCEPT !["main"] = "m_loop"]
    /\ UNCHANGED <<audioVars, ctlVars, ret, calls, recording_state, kb_lock, hooked,
                   triggers, cbLog, cbErrors, escaped, kbApiVars>>

\* while self._running: time.sleep(0.5) ends because _running was cleared
MainLoopEnds ==
    /\ Running
    /\ pc["main"] = "m_loop"
    /\ ~ctl_running
    /\ pc' = [pc EXCEPT !["main"] = "m_finally"]
    /\ UNCHANGED <<audioVars, kbVars, ctlVars, ret, calls>>

\* SIGINT in the main loop: signal_handler raises SystemExit (sys.exit(0));
\* without main()'s handler Python raises KeyboardInterrupt
Sigint ==
    /\ Running
    /\ pc["main"] = "m_loop"
    /\ \E e \in {"SystemExit", "KeyboardInterrupt"} : mainExc' = e
    /\ pc' = [pc EXCEPT !["main"] = "m_finally"]
    /\ UNCHANGED <<audioVars, kbVars, ret, calls, ctl_running, _shutdown_lock, shutdownLog,
                   entrySession, stopCalls, returned, exited>>

\* self.stop() after the try statement instead of in its finally clause
StartFinally_AfterTry ==
    /\ Running
    /\ pc["main"] = "m_finally"
    /\ mainExc' = IF mainExc = "KeyboardInterrupt" THEN "none" ELSE mainExc
    /\ pc' = [pc EXCEPT !["main"] = IF mainExc = "SystemExit" THEN "m_after" ELSE "ctl_lock"]
    /\ UNCHANGED <<audioVars, kbVars, ret, calls, ctl_running, _shutdown_lock, shutdownLog,
                   entrySession, stopCalls, returned, exited>>

\* except KeyboardInterrupt: catches that one only, SystemExit stays in flight;
\* finally: self.stop()
StartFinally ==
    /\ Running
    /\ pc["main"] = "m_finally"
    /\ mainExc' = IF mainExc = "KeyboardInterrupt" THEN "none" ELSE mainExc
    /\ pc' = [pc EXCEPT !["main"] = "ctl_lock"]
    /\ UNCHANGED <<audioVars, kbVars, ret, calls, ctl_running, _shutdown_lock, shutdownLog,
                   entrySession, stopCalls, returned, exited>>

\* start() is left (returning, or with SystemExit in flight that main()'s
\* `except Exception` does not catch): the process exits
MainExit ==
    /\ Running
    /\ pc["main"] = "m_after"
    /\ exited' = TRUE
    /\ pc' = [pc EXCEPT !["main"] = "m_exited"]
    /\ UNCHANGED <<audioVars, kbVars, ret, calls, ctl_running, _shutdown_lock, shutdownLog,
                   entrySession, stopCalls, returned, mainExc>>

\* another thread calls RecordingController.stop()
CtlStopCall(c) ==
    /\ Running
    /\ c # "main"
    /\ pc[c] = "idle"
    /\ stopCalls < MaxStopCalls
    /\ stopCalls' = stopCalls + 1
    /\ pc' = [pc EXCEPT ![c] = "ctl_lock"]
    /\ UNCHANGED <<audioVars, kbVars, ret, calls, ctl_running, _shutdown_lock, shutdownLog,
                   entrySession, returned, mainExc, exited>>

\* stop() without its `if not self._running` guard
CtlStopEnter_NoGuard(c) ==
    /\ Running
    /\ pc[c] = "ctl_lock"
    /\ _shutdown_lock = Free
    /\ ctl_running' = FALSE
    /\ _shutdown_lock' = c
    /\ entrySession' = IF _recording THEN started ELSE 0
    /\ pc' = [pc EXCEPT ![c] = "ctl_isrec"]
    /\ UNCHANGED <<audioVars, kbVars, ret, calls, shutdownLog, stopCalls, returned, mainExc,
                   exited>>

\* with self._shutdown_lock: if not self._running: return; self._running = False
CtlStopEnter(c) ==
    /\ Running
    /\ pc[c] = "ctl_lock"
    /\ _shutdown_lock = Free
    /\ IF ~ctl_running
       THEN /\ pc' = [pc EXCEPT ![c] = CtlRet(c)]
            /\ returned' = returned + 1
            /\ UNCHANGED <<ctl_running, _shutdown_lock, entrySession>>
       ELSE /\ ctl_running' = FALSE
            /\ _shutdown_lock' = c
            /\ entrySession' = IF _recording THEN started ELSE 0
            /\ pc' = [pc EXCEPT ![c] = "ctl_isrec"]
            /\ UNCHANGED returned
    /\ UNCHANGED <<audioVars, kbVars, ret, calls, shutdownLog, stopCalls, mainExc, exited>>

\* stop() going to keyboard.stop() without stopping the active recording
CtlIsRecording_Skipped(c) ==
    /\ Running
    /\ pc[c] = "ctl_isrec"
    /\ audio_lock = Free
    /\ pc' = [pc EXCEPT ![c] = "ctl_kbstop"]
    /\ UNCHANGED <<audioVars, kbVars, ret, calls, ctlVars>>

\* stop() keeping the recorder's lock from is_recording() on
CtlIsRecording_KeepsLock(c) ==
    /\ Running
    /\ pc[c] = "ctl_isrec"
    /\ audio_lock = Free
    /\ audio_lock' = c
    /\ IF _recording
       THEN /\ shutdownLog' = Append(shutdownLog, "stopping_recording")
            /\ pc' = [pc EXCEPT ![c] = "stop_wait"]
            /\ ret' = [ret EXCEPT ![c] = "ctl_stopped"]
       ELSE /\ pc' = [pc EXCEPT ![c] = "ctl_kbstop"]
            /\ UNCHANGED <<shutdownLog, ret>>
    /\ UNCHANGED <<_recording, _frames, _thread, processor, cap, started, wav, saves, jobs,
                   warned, transcribes, indicator,
                   transcribing, kbVars, calls, ctl_running, _shutdown_lock,
                   entrySession, stopCalls, returned, mainExc, exited>>

\* if self.audio.is_recording(): self.audio.stop_recording()
CtlIsRecording(c) ==
    /\ Running
    /\ pc[c] = "ctl_isrec"
    /\ audio_lock = Free
    /\ IF _recording
       THEN /\ shutdownLog' = Append(shutdownLog, "stopping_recording")
            /\ pc' = [pc EXCEPT ![c] = "stop_wait"]
            /\ ret' = [ret EXCEPT ![c] = "ctl_stopped"]
       ELSE /\ pc' = [pc EXCEPT ![c] = "ctl_kbstop"]
            /\ UNCHANGED <<shutdownLog, ret>>
    /\ UNCHANGED <<audioVars, kbVars, calls, ctl_running, _shutdown_lock, entrySession,
                   stopCalls, returned, mainExc, exited>>

\* _monitor_status, started by start(): while self._running it calls
\* self.audio.is_recording() and sleeps
StatusPoll(s) ==
    /\ Running
    /\ s \in Pollers
    /\ pc[s] = "idle"
    /\ pc["main"] # "m_new"
    /\ ctl_running
    /\ pc' = [pc EXCEPT ![s] = "isrec_wait"]
    /\ UNCHANGED <<audioVars, kbVars, ctlVars, ret, calls>>

\* is_recording(): with self._thread_lock
StatusAcquire(s) ==
    /\ Running
    /\ pc[s] = "isrec_wait"
    /\ audio_lock = Free
    /\ audio_lock' = s
    /\ pc' = [pc EXCEPT ![s] = "isrec_read"]
    /\ UNCHANGED <<_recording, _frames, _thread, processor, cap, started, wav, saves, jobs,
                   warned, transcribes, indicator, transcribing, kbVars, ctlVars, ret, calls>>

\* return self._recording: the lock is left, the thread sleeps
StatusRelease(s) ==
    /\ Running
    /\ pc[s] = "isrec_read"
    /\ audio_lock' = Free
    /\ pc' = [pc EXCEPT ![s] = "idle"]
    /\ UNCHANGED <<_recording, _frames, _thread, processor, cap, started, wav, saves, jobs,
                   warned, transcribes, indicator, transcribing, kbVars, ctlVars, ret, calls>>

\* stop_recording returned: "[MAIN] Active recording stopped"
CtlRecordingStopped(c) ==
    /\ Running
    /\ pc[c] = "ctl_stopped"
    /\ shutdownLog' = Append(shutdownLog, "recording_stopped")
    /\ pc' = [pc EXCEPT ![c] = "ctl_kbstop"]
    /\ UNCHANGED <<audioVars, kbVars, ret, calls, ctl_running, _shutdown_lock, entrySession,
                   stopCalls, returned, mainExc, exited>>

\* self.audio.cleanup(): if self._recording: self.stop_recording()
Cleanup(c) ==
    /\ Running
    /\ pc[c] = "ctl_cleanup"
    /\ shutdownLog' = Append(shutdownLog, "cleanup")
    /\ IF _recording
       THEN /\ pc' = [pc EXCEPT ![c] = "stop_wait"]
            /\ ret' = [ret EXCEPT ![c] = "ctl_done"]
       ELSE /\ pc' = [pc EXCEPT ![c] = "ctl_done"]
            /\ UNCHANGED ret
    /\ UNCHANGED <<audioVars, kbVars, calls, ctl_running, _shutdown_lock, entrySession,
                   stopCalls, returned, mainExc, exited>>

\* "Recording system shutdown complete": the shutdown lock is left
CtlStopExit(c) ==
    /\ Running
    /\ pc[c] = "ctl_done"
    /\ shutdownLog' = Append(shutdownLog, "complete")
    /\ _shutdown_lock' = Free
    /\ returned' = returned + 1
    /\ pc' = [pc EXCEPT ![c] = CtlRet(c)]
    /\ UNCHANGED <<audioVars, kbVars, ret, calls, ctl_running, entrySession, stopCalls,
                   mainExc, exited>>

\* ---------------------------------------------------- ReformatterController
\* The keyboard library delivers the ctrl events one after the other on its
\* hook thread; the timer threads (check_hold_duration) and the workflow
\* workers run beside it.  Times are in seconds.
None == -1

\* current_hold_time >= self.hold_duration, of a boundary-free variant
HoldElapsed_Unchecked(start) == TRUE

\* current_hold_time = time.time() - self.press_start_time;
\* current_hold_time >= self.hold_duration
HoldElapsed(start) == now - start >= hold_duration

\* ReformatterController(): the Gemini reformatter is there, or it is left None
\* (dependencies missing, constructor raising); start() hooks the ctrl key
ReformatterStart ==
    /\ hookPc = "unhooked"
    /\ hookPc' = "idle"
    /\ ctrl_hooks' = TRUE
    /\ gemini' \in BOOLEAN
    /\ UNCHANGED <<recVars, clipVars, poolVars, srPc, is_recording, hold_duration, ctrl_pressed,
                   press_start_time,
                   monitoring_hotkey, _monitoring_disabled_warned, timers, armed, workers,
                   now, keyDown, holdId, holdStart, holdEnd, trigs, staleNoop, outcomes,
                   armedInFlight, resetting, msgs>>

\* on_ctrl_press up to the lock: the gate check, with the message printed once
OnCtrlPressGate ==
    IF ~monitoring_hotkey
    THEN /\ _monitoring_disabled_warned' = TRUE
         /\ msgs' = (IF _monitoring_disabled_warned THEN msgs ELSE msgs + 1)
         /\ UNCHANGED hookPc
    ELSE /\ hookPc' = "press_lock"
         /\ UNCHANGED <<_monitoring_disabled_warned, msgs>>

\* the key goes down: a KEY_DOWN event reaches on_ctrl_press
PressKey ==
    /\ ~keyDown
    /\ ctrl_hooks
    /\ hookPc = "idle"
    /\ holdId < MaxHolds
    /\ keyDown' = TRUE
    /\ holdId' = holdId + 1
    /\ holdStart' = [holdStart EXCEPT ![holdId + 1] = now]
    /\ OnCtrlPressGate
    /\ UNCHANGED <<recVars, clipVars, poolVars, hookVars, hold_duration, ctrl_pressed,
                   press_start_time,
                   monitoring_hotkey, gemini, timers, armed, workers, now, holdEnd,
                   trigs, staleNoop, outcomes, armedInFlight, resetting>>

\* the key stays down: the OS key repeat sends another KEY_DOWN event
RepeatKey ==
    /\ keyDown
    /\ ctrl_hooks
    /\ hookPc = "idle"
    /\ OnCtrlPressGate
    /\ UNCHANGED <<recVars, clipVars, poolVars, hookVars, hold_duration, ctrl_pressed,
                   press_start_time,
                   monitoring_hotkey, gemini, timers, armed, workers, now, keyDown,
                   holdId, holdStart, holdEnd, trigs, staleNoop, outcomes, armedInFlight,
                   resetting>>

\* on_ctrl_press inside the lock: if not self.ctrl_pressed: note the time and
\* start a timer thread
OnCtrlPressLocked ==
    /\ hookPc = "press_lock"
    /\ hookPc' = "idle"
    /\ IF ~ctrl_pressed
       THEN /\ armed < MaxTimers
            /\ ctrl_pressed' = TRUE
            /\ press_start_time' = now
            /\ armed' = armed + 1
            /\ timers' = timers \cup
                 {[id |-> armed + 1, deadline |-> now + hold_duration, hold |-> holdId,
                   dur |-> hold_duration]}
            /\ armedInFlight' = (armedInFlight \/ workers > 0)
       ELSE UNCHANGED <<ctrl_pressed, press_start_time, armed, timers, armedInFlight>>
    /\ UNCHANGED <<recVars, clipVars, poolVars, hookVars, hold_duration, monitoring_hotkey,
                   _monitoring_disabled_warned, gemini, workers, now, keyDown, holdId,
                   holdStart, holdEnd, trigs, staleNoop, outcomes, resetting, msgs>>

\* the key goes up: a KEY_UP event reaches on_ctrl_release
ReleaseKey ==
    /\ keyDown
    /\ ctrl_hooks
    /\ hookPc = "idle"
    /\ keyDown' = FALSE
    /\ holdEnd' = [holdEnd EXCEPT ![holdId] = now]
    /\ IF ctrl_pressed
       THEN ctrl_pressed' = FALSE /\ press_start_time' = None
       ELSE UNCHANGED <<ctrl_pressed, press_start_time>>
    /\ UNCHANGED <<recVars, clipVars, poolVars, hookVars, hold_duration, monitoring_hotkey,
                   _monitoring_disabled_warned, gemini, timers, armed, workers, now, holdId,
                   holdStart, trigs, hookPc, staleNoop, outcomes, armedInFlight, resetting,
                   msgs>>

\* _trigger_reformatting: the gate is closed; with a reformatter a worker thread
\* is started, without one the gate is reopened at once
TriggerReformatting ==
    IF gemini
    THEN /\ monitoring_hotkey' = FALSE
         /\ workers' = workers + 1
         /\ msgs' = (IF monitoring_hotkey THEN 0 ELSE msgs)
         /\ UNCHANGED _monitoring_disabled_warned
    ELSE /\ monitoring_hotkey' = TRUE
         /\ _monitoring_disabled_warned' = FALSE
         /\ UNCHANGED <<workers, msgs>>

\* if self.ctrl_pressed and self.press_start_time
StillPressed == ctrl_pressed /\ press_start_time # None /\ press_start_time # 0

\* check_hold_duration after its time.sleep(self.hold_duration), which lasts at
\* least that long: inside the lock, trigger and reset if the key is still held
TimerFires(tm) ==
    /\ tm \in timers
    /\ now >= tm.deadline
    /\ timers' = timers \ {tm}
    /\ IF StillPressed /\ HoldElapsed(press_start_time)
       THEN /\ TriggerReformatting
            /\ ctrl_pressed' = FALSE
            /\ press_start_time' = None
            /\ trigs' = [trigs EXCEPT ![holdId] = @ + 1]
            /\ UNCHANGED staleNoop
       ELSE /\ staleNoop' = (staleNoop \/ (ctrl_pressed /\ tm.hold < holdId))
            /\ UNCHANGED <<ctrl_pressed, press_start_time, trigs, monitoring_hotkey,
                           _monitoring_disabled_warned, workers, msgs>>
    /\ UNCHANGED <<recVars, clipVars, poolVars, hookVars, hold_duration, gemini, armed, now,
                   keyDown, holdId,
                   holdStart, holdEnd, hookPc, outcomes, armedInFlight, resetting>>

\* the ways GeminiReformatter.process() ends: True, False at one of its three
\* steps, or with an exception
Outcomes == {"success", "no_selection", "cloud_failed", "paste_failed", "raised"}

\* run_gemini_reformatting without its finally clause: the gate is reopened
\* after process() has returned
WorkerDone_NoFinally ==
    /\ workers > 0
    /\ workers' = workers - 1
    /\ \E o \in Outcomes :
          /\ outcomes' = outcomes \cup {o}
          /\ IF o = "raised"
             THEN UNCHANGED <<monitoring_hotkey, resetting>>
             ELSE monitoring_hotkey' = TRUE /\ resetting' = resetting + 1
    /\ UNCHANGED <<recVars, clipVars, poolVars, hookVars,
                   hold_duration, ctrl_pressed, press_start_time, gemini,
                   timers, armed, now, keyDown, holdId, holdStart, holdEnd, trigs, hookPc,
                   staleNoop, armedInFlight, _monitoring_disabled_warned, msgs>>

\* run_gemini_reformatting ends, however process() ended: finally, the gate is
\* reopened; the warning flag is reset by the statement after it
WorkerDone ==
    /\ workers > 0
    /\ workers' = workers - 1
    /\ \E o \in Outcomes : outcomes' = outcomes \cup {o}
    /\ monitoring_hotkey' = TRUE
    /\ resetting' = resetting + 1
    /\ UNCHANGED <<recVars, clipVars, poolVars, hookVars,
                   hold_duration, ctrl_pressed, press_start_time, gemini,
                   timers, armed, now, keyDown, holdId, holdStart, holdEnd, trigs, hookPc,
                   staleNoop, armedInFlight, _monitoring_disabled_warned, msgs>>

\* self._monitoring_disabled_warned = False, the second statement of the
\* worker's finally clause, and the worker ends
WorkerResetsWarned ==
    /\ resetting > 0
    /\ resetting' = resetting - 1
    /\ _monitoring_disabled_warned' = FALSE
    /\ UNCHANGED <<recVars, clipVars, poolVars, hookVars, hold_duration, ctrl_pressed,
                   press_start_time,
                   monitoring_hotkey, gemini, timers, armed, workers, now, keyDown, holdId,
                   holdStart, holdEnd, trigs, hookPc, staleNoop, outcomes, armedInFlight,
                   msgs>>

\* set_hold_duration(d) is called
HoldDurations == {1, 2, 3}
SetHoldDuration ==
    /\ hookPc # "unhooked"
    /\ \E d \in HoldDurations : hold_duration' = d
    /\ UNCHANGED <<recVars, clipVars, poolVars, hookVars, ctrl_pressed, press_start_time,
                   monitoring_hotkey,
                   _monitoring_disabled_warned, gemini, timers, armed, workers, now, keyDown,
                   holdId, holdStart, holdEnd, trigs, hookPc, staleNoop, outcomes,
                   armedInFlight, resetting, msgs>>

\* a second passes; the lock is only ever held for moments, so the hook thread
\* is not kept waiting for it that long
Tick ==
    /\ now < MaxTime
    /\ hookPc # "press_lock"
    /\ now' = now + 1
    /\ UNCHANGED <<recVars, clipVars, poolVars, hookVars, hold_duration, ctrl_pressed,
                   press_start_time,
                   monitoring_hotkey, _monitoring_disabled_warned, gemini, timers, armed,
                   workers, keyDown, holdId, holdStart, holdEnd, trigs, hookPc, staleNoop,
                   outcomes, armedInFlight, resetting, msgs>>

\* ------------------------------------- ClipboardPaster and GeminiReformatter
\* One thread at a time works on the clipboard: a transcription's paste
\* thread, a direct caller of paste_text, or the worker running process().
\* Texts are sequences of characters.
Unset == <<"None">>                    \* Optional[str] holding None
UserTexts == {<<>>, <<"p">>}           \* what the user has on the clipboard
Selections == {<<>>, <<"s">>}          \* what is selected in the active application
PasteTexts == {<<>>, <<"t">>}          \* texts handed to paste_text directly
Reformatted == <<"r">>                 \* the cloud's answer
SegmentTexts == {<<>>, <<" ">>, <<" ", "a">>}

\* `if x`, `if not x` on an Optional[str]
Truthy(x) == x # <<>> /\ x # Unset

RECURSIVE LStrip(_)
LStrip(s) == IF s = <<>> THEN s ELSE IF Head(s) = " " THEN LStrip(Tail(s)) ELSE s

RECURSIVE RStrip(_)
RStrip(s) ==
    IF s = <<>> THEN s
    ELSE IF s[Len(s)] = " " THEN RStrip(SubSeq(s, 1, Len(s) - 1)) ELSE s

\* a transcription that keeps the text of the segments as it is
Strip_Identity(s) == s

\* str.strip()
Strip(s) == RStrip(LStrip(s))

\* for segment in segments: full_text += segment.text.strip() + " "
RECURSIVE FullText(_)
FullText(segs) ==
    IF segs = <<>> THEN <<>> ELSE Strip(Head(segs)) \o <<" ">> \o FullText(Tail(segs))

\* sequences of at most n segment texts
SegmentSeqs(n) == UNION {[1..m -> SegmentTexts] : m \in 0..n}

\* paste_text(t) is entered
EnterPaste(t, who) ==
    /\ text' = t
    /\ caller' = who
    /\ before' = clipboard
    /\ clipPc' = "p_guard"

\* AudioProcessor() creates its ClipboardPaster if auto_paste is set and the
\* paster module could be imported; the clipboard holds what the user left there
ProcessorInit ==
    /\ clipPc = "new"
    /\ UNCHANGED steps
    /\ clipPc' = "idle"
    /\ paster' \in BOOLEAN
    /\ \E x \in UserTexts : clipboard' = x
    /\ UNCHANGED <<recVars, reVars, poolVars, hookVars, _saved_clipboard, _original_clipboard,
                   caller, text,
                   selection, selected_text, delivered, before, preHold, result, procResult,
                   faults, ops, segments, txFailed, txPasted>>

\* the user copies something else between two operations
UserCopies ==
    /\ clipPc = "idle"
    /\ UNCHANGED steps
    /\ ops < MaxOps
    /\ ops' = ops + 1
    /\ \E x \in UserTexts : clipboard' = x
    /\ caller' = "user"
    /\ UNCHANGED <<recVars, reVars, poolVars, hookVars, _saved_clipboard, _original_clipboard,
                   clipPc,
                   text, selection, selected_text, delivered, before, preHold, result,
                   procResult, faults, paster, segments, txFailed, txPasted>>

\* paste_text(text) is called directly
CallPaste ==
    /\ clipPc = "idle"
    /\ steps' = <<>>
    /\ ops < MaxOps
    /\ ops' = ops + 1
    /\ \E t \in PasteTexts : EnterPaste(t, "direct")
    /\ faults' = {}
    /\ UNCHANGED <<recVars, reVars, poolVars, hookVars, clipboard, _saved_clipboard,
                   _original_clipboard,
                   selection, selected_text, delivered, preHold, result, procResult,
                   paster, segments, txFailed, txPasted>>

\* if not text: return False
PasteGuard ==
    /\ clipPc = "p_guard"
    /\ UNCHANGED steps
    /\ IF text = <<>>
       THEN result' = FALSE /\ clipPc' = "p_ret"
       ELSE clipPc' = "p_save" /\ UNCHANGED result
    /\ UNCHANGED <<recVars, reVars, poolVars, hookVars,
                   clipboard, _saved_clipboard, _original_clipboard, caller,
                   text, selection, selected_text, delivered, before, preHold, procResult,
                   faults, ops, paster, segments, txFailed, txPasted>>

\* paste_text going on to set_clipboard after a failed save
PasteSave_Continues ==
    /\ clipPc = "p_save"
    /\ \/ /\ _saved_clipboard' = clipboard
          /\ steps' = Append(steps, <<"save", TRUE>>)
       \/ /\ _saved_clipboard' = Unset
          /\ steps' = Append(steps, <<"save", FALSE>>)
    /\ clipPc' = "p_set"
    /\ UNCHANGED <<recVars, reVars, poolVars, hookVars,
                   clipboard, _original_clipboard, caller, text, selection,
                   selected_text, delivered, before, preHold, procResult, ops, paster,
                   segments, txFailed, txPasted, result, faults>>

\* save_clipboard: self._saved_clipboard = pyperclip.paste(), None if it raises
PasteSave ==
    /\ clipPc = "p_save"
    /\ \/ /\ _saved_clipboard' = clipboard
          /\ steps' = Append(steps, <<"save", TRUE>>)
          /\ clipPc' = "p_set"
          /\ UNCHANGED <<result, faults>>
       \/ /\ _saved_clipboard' = Unset
          /\ steps' = Append(steps, <<"save", FALSE>>)
          /\ result' = FALSE
          /\ faults' = faults \cup {"save"}
          /\ clipPc' = "p_ret"
    /\ UNCHANGED <<recVars, reVars, poolVars, hookVars,
                   clipboard, _original_clipboard, caller, text, selection,
                   selected_text, delivered, before, preHold, procResult, ops, paster,
                   segments, txFailed, txPasted>>

\* paste_text going on to simulate_paste after a failed set_clipboard
PasteSet_Continues ==
    /\ clipPc = "p_set"
    /\ \/ /\ clipboard' = text
          /\ steps' = Append(steps, <<"set", TRUE>>)
          /\ UNCHANGED faults
       \/ /\ steps' = Append(steps, <<"set", FALSE>>)
          /\ faults' = faults \cup {"set"}
          /\ UNCHANGED clipboard
    /\ clipPc' = "p_send"
    /\ UNCHANGED <<recVars, reVars, poolVars, hookVars, _saved_clipboard, _original_clipboard,
                   caller, text,
                   selection, selected_text, delivered, before, preHold, procResult, ops,
                   paster, segments, txFailed, txPasted, result>>

\* set_clipboard: pyperclip.copy(text), or it raises and paste_text returns False
PasteSet ==
    /\ clipPc = "p_set"
    /\ \/ /\ clipboard' = text
          /\ steps' = Append(steps, <<"set", TRUE>>)
          /\ clipPc' = "p_send"
          /\ UNCHANGED <<result, faults>>
       \/ /\ result' = FALSE
          /\ steps' = Append(steps, <<"set", FALSE>>)
          /\ faults' = faults \cup {"set"}
          /\ clipPc' = "p_ret"
          /\ UNCHANGED clipboard
    /\ UNCHANGED <<recVars, reVars, poolVars, hookVars, _saved_clipboard, _original_clipboard,
                   caller, text,
                   selection, selected_text, delivered, before, preHold, procResult, ops,
                   paster, segments, txFailed, txPasted>>

\* restore_clipboard: nothing if nothing was saved; else pyperclip.copy of the
\* saved content, which may raise
RestoreClipboard(ok) ==
    IF _saved_clipboard = Unset
    THEN UNCHANGED clipboard
    ELSE IF ok THEN clipboard' = _saved_clipboard ELSE UNCHANGED clipboard

\* what restore_clipboard returns
Restored(ok) == _saved_clipboard # Unset /\ ok

\* paste_text returning False after a failed simulate_paste without a restore
PasteSimulate_NoRestore ==
    /\ clipPc = "p_send"
    /\ \/ /\ delivered' = Append(delivered, clipboard)
          /\ steps' = Append(steps, <<"paste", TRUE>>)
          /\ clipPc' = "p_restore"
          /\ UNCHANGED <<result, faults>>
       \/ /\ steps' = Append(steps, <<"paste", FALSE>>)
          /\ faults' = faults \cup {"send"}
          /\ result' = FALSE
          /\ clipPc' = "p_ret"
          /\ UNCHANGED delivered
    /\ UNCHANGED <<recVars, reVars, poolVars, hookVars, _saved_clipboard, _original_clipboard,
                   caller, text,
                   selection, selected_text, before, preHold, procResult, ops, paster,
                   segments, txFailed, txPasted, clipboard>>

\* simulate_paste: keyboard.send('ctrl+v') delivers the clipboard to the active
\* application; if it raises the clipboard is restored and False returned
PasteSimulate ==
    /\ clipPc = "p_send"
    /\ \/ /\ delivered' = Append(delivered, clipboard)
          /\ steps' = Append(steps, <<"paste", TRUE>>)
          /\ clipPc' = "p_restore"
          /\ UNCHANGED <<clipboard, result, faults>>
       \/ /\ \E ok \in BOOLEAN :
               /\ RestoreClipboard(ok)
               /\ steps' = steps \o <<(<<"paste", FALSE>>), <<"restore", Restored(ok)>> >>
               /\ faults' = faults \cup (IF ok THEN {"send"} ELSE {"send", "restore"})
          /\ result' = FALSE
          /\ clipPc' = "p_ret"
          /\ UNCHANGED delivered
    /\ UNCHANGED <<recVars, reVars, poolVars, hookVars, _saved_clipboard, _original_clipboard,
                   caller, text,
                   selection, selected_text, before, preHold, procResult, ops, paster,
                   segments, txFailed, txPasted>>

\* time.sleep(restore_delay); restore_clipboard(), a failure only logged;
\* return True
PasteRestore ==
    /\ clipPc = "p_restore"
    /\ \E ok \in BOOLEAN :
         /\ RestoreClipboard(ok)
         /\ steps' = steps \o <<(<<"wait", TRUE>>), <<"restore", Restored(ok)>> >>
         /\ faults' = (IF ok THEN faults ELSE faults \cup {"restore"})
    /\ result' = TRUE
    /\ clipPc' = "p_ret"
    /\ UNCHANGED <<recVars, reVars, poolVars, hookVars, _saved_clipboard, _original_clipboard,
                   caller, text,
                   selection, selected_text, delivered, before, preHold, procResult, ops,
                   paster, segments, txFailed, txPasted>>

\* paste_text has returned to its caller
PasteReturned ==
    /\ clipPc = "p_ret"
    /\ UNCHANGED steps
    /\ clipPc' = IF caller = "process" THEN "g_pasted" ELSE "idle"
    /\ UNCHANGED <<recVars, reVars, poolVars, hookVars,
                   clipboard, _saved_clipboard, _original_clipboard, caller,
                   text, selection, selected_text, delivered, before, preHold, result,
                   procResult, faults, ops, paster, segments, txFailed, txPasted>>

\* the worker thread calls GeminiReformatter.process()
CallProcess ==
    /\ clipPc = "idle"
    /\ steps' = <<>>
    /\ ops < MaxOps
    /\ ops' = ops + 1
    /\ \E sel \in Selections : selection' = sel
    /\ preHold' = clipboard
    /\ faults' = {}
    /\ caller' = "process"
    /\ clipPc' = "g_copy"
    /\ UNCHANGED <<recVars, reVars, poolVars, hookVars,
                   clipboard, _saved_clipboard, _original_clipboard, text,
                   selected_text, delivered, before, result, procResult, paster, segments,
                   txFailed, txPasted>>

\* copy_selected_text: save the clipboard, clear it, send Ctrl+C, read it back.
\* Any of the four library calls may raise.  With nothing copied, or after an
\* exception, the saved content is written back if it is truthy, and None
\* returned, on which process() returns False.
CopySelectedText ==
    /\ clipPc = "g_copy"
    /\ \E fault \in {"none", "paste", "clear", "send", "read"} :
         LET orig == IF fault = "paste" THEN _original_clipboard ELSE clipboard
             cb == IF fault \in {"paste", "clear"} THEN clipboard
                   ELSE IF fault = "send" THEN <<>>
                   ELSE selection
             failed == IF fault = "none" THEN {} ELSE {"copy"}
         IN /\ _original_clipboard' = orig
            /\ IF fault = "none" /\ cb # <<>>
               THEN /\ selected_text' = cb
                    /\ clipboard' = cb
                    /\ steps' = Append(steps, <<"copy", TRUE>>)
                    /\ clipPc' = "g_cloud"
                    /\ UNCHANGED <<procResult, faults>>
               ELSE /\ steps' = Append(steps, <<"copy", FALSE>>)
                    /\ IF Truthy(orig)
                       THEN \E ok \in BOOLEAN :
                              /\ clipboard' = (IF ok THEN orig ELSE cb)
                              /\ faults' = faults \cup failed \cup
                                              (IF ok THEN {} ELSE {"restore"})
                       ELSE /\ clipboard' = cb
                            /\ faults' = faults \cup failed
                    /\ procResult' = "no_selection"
                    /\ clipPc' = "g_ret"
                    /\ UNCHANGED selected_text
    /\ UNCHANGED <<recVars, reVars, poolVars, hookVars, _saved_clipboard, caller, text, selection,
                   delivered,
                   before, preHold, result, ops, paster, segments, txFailed, txPasted>>

\* reformat_with_gemini returns the text, and paste_text is called with it; or
\* it returns None (API error, no formatted_text), the original clipboard is
\* written back if truthy, by a pyperclip.copy outside any try, and process()
\* returns False
ReformatWithGemini ==
    /\ clipPc = "g_cloud"
    /\ \/ /\ EnterPaste(Reformatted, "process")
          /\ steps' = Append(steps, <<"cloud", TRUE>>)
          /\ UNCHANGED <<clipboard, procResult, faults>>
       \/ /\ clipPc' = "g_ret"
          /\ steps' = Append(steps, <<"cloud", FALSE>>)
          /\ IF Truthy(_original_clipboard)
             THEN \E ok \in BOOLEAN :
                    /\ clipboard' = (IF ok THEN _original_clipboard ELSE clipboard)
                    /\ procResult' = (IF ok THEN "cloud_failed" ELSE "raised")
                    /\ faults' = faults \cup (IF ok THEN {"cloud"} ELSE {"cloud", "restore"})
             ELSE /\ procResult' = "cloud_failed"
                  /\ faults' = faults \cup {"cloud"}
                  /\ UNCHANGED clipboard
          /\ UNCHANGED <<text, caller, before>>
    /\ UNCHANGED <<recVars, reVars, poolVars, hookVars, _saved_clipboard, _original_clipboard,
                   selection,
                   selected_text, delivered, preHold, result, ops, paster, segments,
                   txFailed, txPasted>>

\* success = self.paster.paste_text(...); if self._original_clipboard and not
\* success: try pyperclip.copy(self._original_clipboard); return success
ProcessPasted ==
    /\ clipPc = "g_pasted"
    /\ UNCHANGED steps
    /\ clipPc' = "g_ret"
    /\ procResult' = (IF result THEN "success" ELSE "paste_failed")
    /\ IF Truthy(_original_clipboard) /\ ~result
       THEN \E ok \in BOOLEAN :
              /\ clipboard' = (IF ok THEN _original_clipboard ELSE clipboard)
              /\ faults' = (IF ok THEN faults ELSE faults \cup {"restore"})
       ELSE UNCHANGED <<clipboard, faults>>
    /\ UNCHANGED <<recVars, reVars, poolVars, hookVars, _saved_clipboard, _original_clipboard,
                   caller, text,
                   selection, selected_text, delivered, before, preHold, result, ops,
                   paster, segments, txFailed, txPasted>>

\* process() has returned, or raised, into run_gemini_reformatting
ProcessReturned ==
    /\ clipPc = "g_ret"
    /\ UNCHANGED steps
    /\ clipPc' = "idle"
    /\ UNCHANGED <<recVars, reVars, poolVars, hookVars,
                   clipboard, _saved_clipboard, _original_clipboard, caller,
                   text, selection, selected_text, delivered, before, preHold, result,
                   procResult, faults, ops, paster, segments, txFailed, txPasted>>

\* transcribe_file: it fails (file missing or empty, Whisper raising) and
\* returns None, or it joins the stripped segments, strips the result and, with
\* a paster and a non-empty text, starts a paste thread running paste_text
TranscribeFile ==
    /\ clipPc = "idle"
    /\ steps' = <<>>
    /\ ops < MaxOps
    /\ ops' = ops + 1
    /\ \E failed \in BOOLEAN, segs \in SegmentSeqs(MaxSegments) :
         LET transcribed_text == Strip(FullText(segs))
         IN /\ txFailed' = failed
            /\ segments' = segs
            /\ IF ~failed /\ paster /\ transcribed_text # <<>>
               THEN /\ txPasted' = TRUE
                    /\ EnterPaste(transcribed_text, "transcribe")
               ELSE /\ txPasted' = FALSE
                    /\ caller' = "transcribe"
                    /\ UNCHANGED <<text, before, clipPc>>
    /\ faults' = {}
    /\ UNCHANGED <<recVars, reVars, poolVars, hookVars, clipboard, _saved_clipboard,
                   _original_clipboard,
                   selection, selected_text, delivered, preHold, result, procResult, paster>>

\* ------------------------------------------- the paste threads of the processor
\* transcribe_file starts a thread on _paste_text_async for every non-empty
\* transcript and returns; the threads all call paste_text of the one
\* ClipboardPaster of the AudioProcessor, which takes no lock
Transcript(w) == IF w = "w1" THEN <<"a">> ELSE <<"b">>

clipRest == <<_original_clipboard, clipPc, caller, text, selection, selected_text, before,
              preHold, result, procResult, faults, ops, paster, segments, txFailed,
              txPasted, steps>>

\* paste_thread.start(): _paste_text_async calls self.paster.paste_text(text)
PoolStart(w) ==
    /\ clipPc = "idle"
    /\ paster
    /\ pw[w].pc = "new"
    /\ pw' = [pw EXCEPT ![w].pc = "p_save"]
    /\ UNCHANGED <<recVars, reVars, hookVars, clipVars>>

\* Step 1: save_clipboard()
PoolSave(w) ==
    /\ pw[w].pc = "p_save"
    /\ \/ /\ _saved_clipboard' = clipboard
          /\ pw' = [pw EXCEPT ![w].pc = "p_set"]
       \/ /\ _saved_clipboard' = Unset
          /\ pw' = [pw EXCEPT ![w].pc = "done"]
    /\ UNCHANGED <<recVars, reVars, hookVars, clipboard, delivered, clipRest>>

\* Step 2: set_clipboard(text)
PoolSet(w) ==
    /\ pw[w].pc = "p_set"
    /\ \/ /\ clipboard' = Transcript(w)
          /\ pw' = [pw EXCEPT ![w].pc = "p_send"]
       \/ /\ pw' = [pw EXCEPT ![w].pc = "done"]
          /\ UNCHANGED clipboard
    /\ UNCHANGED <<recVars, reVars, hookVars, _saved_clipboard, delivered, clipRest>>

\* Step 3: simulate_paste(): the keystroke pastes what the clipboard holds; if
\* it fails, restore_clipboard() and return False
PoolSimulate(w) ==
    /\ pw[w].pc = "p_send"
    /\ \/ /\ delivered' = Append(delivered, clipboard)
          /\ pw' = [pw EXCEPT ![w] = [pc |-> "p_restore", sent |-> clipboard]]
          /\ UNCHANGED clipboard
       \/ /\ \E ok \in BOOLEAN : RestoreClipboard(ok)
          /\ pw' = [pw EXCEPT ![w].pc = "done"]
          /\ UNCHANGED delivered
    /\ UNCHANGED <<recVars, reVars, hookVars, _saved_clipboard, clipRest>>

\* Step 4: time.sleep(restore_delay); restore_clipboard()
PoolRestore(w) ==
    /\ pw[w].pc = "p_restore"
    /\ \E ok \in BOOLEAN : RestoreClipboard(ok)
    /\ pw' = [pw EXCEPT ![w].pc = "done"]
    /\ UNCHANGED <<recVars, reVars, hookVars, _saved_clipboard, delivered, clipRest>>

\* -------------------------------------------------------------------- specs
Init ==
    /\ _recording = FALSE
    /\ _frames = <<>>
    /\ _thread = NoThread
    /\ audio_lock = Free
    /\ processor \in BOOLEAN
    /\ cap = [k \in CapIds |-> "unborn"]
    /\ started = 0
    /\ wav = <<>>
    /\ saves = 0
    /\ jobs = 0
    /\ warned = {}
    /\ transcribes = 0
    /\ indicator = "hidden"
    /\ transcribing = 0
    /\ recording_state = FALSE
    /\ kb_lock = Free
    /\ kb_running = FALSE
    /\ monitor = "none"
    /\ hooked = FALSE
    /\ triggers = 0
    /\ cbLog = <<>>
    /\ cbErrors = {}
    /\ escaped = FALSE
    /\ callback = "audio"
    /\ cbWrites = [h \in Hooks |-> <<"audio">>]
    /\ invoked = <<>>
    /\ strays = [start |-> 0, loop |-> 0]
    /\ ctl_running = TRUE
    /\ _shutdown_lock = Free
    /\ shutdownLog = <<>>
    /\ entrySession = 0
    /\ stopCalls = 0
    /\ returned = 0
    /\ mainExc = "none"
    /\ exited = FALSE
    /\ pc = [t \in Threads |-> IF t = "main" THEN "m_new" ELSE "idle"]
    /\ ret = [t \in Threads |-> "idle"]
    /\ calls = 0
    /\ hold_duration = HoldDuration
    /\ ctrl_pressed = FALSE
    /\ press_start_time = None
    /\ monitoring_hotkey = TRUE
    /\ _monitoring_disabled_warned = FALSE
    /\ gemini = FALSE
    /\ timers = {}
    /\ armed = 0
    /\ workers = 0
    /\ now = 1
    /\ keyDown = FALSE
    /\ holdId = 0
    /\ holdStart = [h \in 1..MaxHolds |-> None]
    /\ holdEnd = [h \in 1..MaxHolds |-> None]
    /\ trigs = [h \in 1..MaxHolds |-> 0]
    /\ hookPc = "unhooked"
    /\ staleNoop = FALSE
    /\ outcomes = {}
    /\ armedInFlight = FALSE
    /\ resetting = 0
    /\ msgs = 0
    /\ clipboard = <<>>
    /\ _saved_clipboard = Unset
    /\ _original_clipboard = Unset
    /\ clipPc = "new"
    /\ caller = "user"
    /\ text = <<>>
    /\ selection = <<>>
    /\ selected_text = <<>>
    /\ delivered = <<>>
    /\ before = <<>>
    /\ preHold = <<>>
    /\ result = FALSE
    /\ procResult = "none"
    /\ faults = {}
    /\ ops = 0
    /\ paster = FALSE
    /\ segments = <<>>
    /\ txFailed = FALSE
    /\ txPasted = FALSE
    /\ steps = <<>>
    /\ pw = [w \in PasteWorkers |-> [pc |-> "new", sent |-> Unset]]
    /\ ctrl_hooks = FALSE
    /\ srPc = "new"
    /\ is_recording = FALSE

\* ShortcutRecorderThread.start_recording(): the flag is set and the thread started
ShortcutStartRecording ==
    /\ srPc = "new"
    /\ ~is_recording
    /\ is_recording' = TRUE
    /\ srPc' = "run"
    /\ UNCHANGED <<recVars, reVars, clipVars, poolVars, ctrl_hooks>>

\* run(): keyboard.on_press and keyboard.on_release register the thread's own hooks
ShortcutHook ==
    /\ srPc = "run"
    /\ srPc' = "loop"
    /\ UNCHANGED <<recVars, reVars, clipVars, poolVars, ctrl_hooks, is_recording>>

\* ShortcutRecorderThread.stop_recording(): the flag is cleared
ShortcutStopRecording ==
    /\ is_recording
    /\ is_recording' = FALSE
    /\ UNCHANGED <<recVars, reVars, clipVars, poolVars, ctrl_hooks, srPc>>

\* while self.is_recording: sleep; then the final shortcut is emitted
ShortcutLoopExit ==
    /\ srPc = "loop"
    /\ ~is_recording
    /\ srPc' = "finally"
    /\ UNCHANGED <<recVars, reVars, clipVars, poolVars, ctrl_hooks, is_recording>>

\* finally: keyboard.unhook_all(), which removes every hook registered in the
\* process: the recorder thread's own, the hotkey, the reformatter's
ShortcutFinally ==
    /\ srPc = "finally"
    /\ srPc' = "done"
    /\ ctrl_hooks' = FALSE
    /\ hooked' = FALSE
    /\ UNCHANGED <<audioVars, ctlVars, threadVars, recording_state, kb_lock, kb_running,
                   monitor, triggers, cbLog, cbErrors, escaped, kbApiVars,
                   reVars, clipVars, poolVars, is_recording>>

\* the ctrl key goes down or up after the reformatter's hooks were removed:
\* neither on_ctrl_press nor on_ctrl_release runs
UnheardKey ==
    /\ hookPc # "unhooked"
    /\ ~ctrl_hooks
    /\ \/ /\ ~keyDown
          /\ holdId < MaxHolds
          /\ keyDown' = TRUE
          /\ holdId' = holdId + 1
          /\ holdStart' = [holdStart EXCEPT ![holdId + 1] = now]
          /\ UNCHANGED holdEnd
       \/ /\ keyDown
          /\ keyDown' = FALSE
          /\ holdEnd' = [holdEnd EXCEPT ![holdId] = now]
          /\ UNCHANGED <<holdId, holdStart>>
    /\ UNCHANGED <<recVars, clipVars, poolVars, hookVars, hold_duration, ctrl_pressed,
                   press_start_time, monitoring_hotkey, _monitoring_disabled_warned, gemini,
                   timers, armed, workers, now, trigs, hookPc, staleNoop, outcomes,
                   armedInFlight, resetting, msgs>>

\* the AudioRecorder alone, driven through its public methods
AudioNext ==
    \/ \E t \in Clients : ClientCall(t)
    \/ \E t \in Clients : StartRecording(t)
    \/ \E t \in Clients : StopRecording(t)
    \/ \E t \in Clients : StopJoin(t)
    \/ \E t \in Clients : StopSave(t)
    \/ \E k \in CapIds : CapOpen(k)
    \/ \E k \in CapIds : CapLoop(k)
    \/ \E k \in CapIds : CapRead(k)
    \/ TranscribeBegin
    \/ TranscribeDone

SpecAudio == Init /\ [][AudioNext]_vars

\* the KeyboardRecorder started by RecordingController.start(), its hook
\* contexts and the recorder behind the callback
KeyboardNext ==
    \/ CtlStart
    \/ MonitorRegister
    \/ \E h \in Hooks : HotkeyTrigger(h)
    \/ \E h \in Hooks : KbToggle(h)
    \/ \E h \in Hooks : AudioToggle(h)
    \/ \E h \in Hooks : CallbackReturned(h)
    \/ \E h \in Hooks : CallbackRaised(h)
    \/ \E h \in Hooks : StartRecording(h)
    \/ \E h \in Hooks : StopRecording(h)
    \/ \E h \in Hooks : StopJoin(h)
    \/ \E h \in Hooks : StopSave(h)
    \/ \E k \in CapIds : CapOpen(k)
    \/ \E k \in CapIds : CapLoop(k)
    \/ \E k \in CapIds : CapRead(k)

SpecKeyboard == Init /\ [][KeyboardNext]_vars

\* the RecordingController with its monitor, recorder and main thread
CtlHooks == {"h1"}
CtlHotkeyTrigger(h) == triggers < MaxCtlTriggers /\ HotkeyTrigger(h)
Workers == CtlHooks \cup Ctls
Next ==
    \/ \E h \in CtlHooks : CtlHotkeyTrigger(h)
    \/ \E h \in CtlHooks : KbToggle(h)
    \/ \E h \in CtlHooks : AudioToggle(h)
    \/ \E h \in CtlHooks : CallbackReturned(h)
    \/ \E h \in CtlHooks : CallbackRaised(h)
    \/ \E t \in Workers : StartRecording(t)
    \/ \E t \in Workers : StopRecording(t)
    \/ \E t \in Workers : StopJoin(t)
    \/ \E t \in Workers : StopSave(t)
    \/ \E k \in CapIds : CapOpen(k)
    \/ \E k \in CapIds : CapLoop(k)
    \/ \E k \in CapIds : CapRead(k)
    \/ MonitorRegister
    \/ MonitorExit
    \/ CtlStart
    \/ MainLoopEnds
    \/ Sigint
    \/ StartFinally
    \/ MainExit
    \/ \E c \in Ctls : CtlStopCall(c)
    \/ \E c \in Ctls : CtlStopEnter(c)
    \/ \E c \in Ctls : CtlIsRecording(c)
    \/ \E c \in Ctls : CtlRecordingStopped(c)
    \/ \E c \in Ctls : KbStop(c)
    \/ \E c \in Ctls : KbJoin(c)
    \/ \E c \in Ctls : KbUnhook(c)
    \/ \E c \in Ctls : Cleanup(c)
    \/ \E c \in Ctls : CtlStopExit(c)

Spec == Init /\ [][Next]_vars

\* the KeyboardRecorder of a constructed controller driven through its public
\* methods: start(), stop() and set_callback() from any thread, the hotkey
\* from the hook contexts
KbApiNext ==
    \/ \E t \in Clients : KbApiCall(t)
    \/ \E t \in Clients : KbStart(t)
    \/ \E t \in Clients : KbStop(t)
    \/ \E t \in Clients : KbJoin(t)
    \/ \E t \in Clients : KbUnhook(t)
    \/ \E t \in Clients : \E f \in Callbacks : SetCallback(t, f)
    \/ \E t \in Clients : KbGetState(t)
    \/ MonitorRegister
    \/ MonitorExit
    \/ StrayRegister
    \/ StrayExit
    \/ \E h \in CtlHooks : CtlHotkeyTrigger(h)
    \/ \E h \in CtlHooks : KbToggle(h)
    \/ \E h \in CtlHooks : AudioToggle(h)
    \/ \E h \in CtlHooks : InvokeCallback(h)
    \/ \E h \in CtlHooks : CallbackReturned(h)
    \/ \E h \in CtlHooks : CallbackRaised(h)
    \/ \E h \in CtlHooks : StartRecording(h)
    \/ \E h \in CtlHooks : StopRecording(h)
    \/ \E h \in CtlHooks : StopJoin(h)
    \/ \E h \in CtlHooks : StopSave(h)
    \/ \E k \in CapIds : CapOpen(k)
    \/ \E k \in CapIds : CapLoop(k)
    \/ \E k \in CapIds : CapRead(k)

SpecKbApi == Init /\ [][KbApiNext]_vars

\* the ReformatterController after start(), with its key events and clock
ReformatNext ==
    \/ ReformatterStart
    \/ PressKey
    \/ RepeatKey
    \/ OnCtrlPressLocked
    \/ ReleaseKey
    \/ \E tm \in timers : TimerFires(tm)
    \/ WorkerDone
    \/ WorkerResetsWarned
    \/ Tick

SpecReformat == Init /\ [][ReformatNext]_vars

\* the same with set_hold_duration called at any time
HoldPressKey == holdId < MaxWorkflowHolds /\ PressKey
HoldNext ==
    \/ ReformatterStart
    \/ HoldPressKey
    \/ RepeatKey
    \/ OnCtrlPressLocked
    \/ ReleaseKey
    \/ \E tm \in timers : TimerFires(tm)
    \/ WorkerDone
    \/ WorkerResetsWarned
    \/ Tick
    \/ SetHoldDuration

SpecHold == Init /\ [][HoldNext]_vars

\* one hold of the key, with the worker threads scheduled fairly: a worker that
\* runs process() gets to its finally clause, since the cloud call and the
\* clipboard operations return
FairReformatNext ==
    \/ ReformatterStart
    \/ HoldPressKey
    \/ RepeatKey
    \/ OnCtrlPressLocked
    \/ ReleaseKey
    \/ \E tm \in timers : TimerFires(tm)
    \/ WorkerDone
    \/ WorkerResetsWarned
    \/ Tick

FairReformat ==
    Init /\ [][FairReformatNext]_vars /\ WF_vars(WorkerDone) /\ WF_vars(WorkerResetsWarned)

\* the clipboard with the three operations that work on it, one at a time
ClipboardNext ==
    \/ ProcessorInit
    \/ UserCopies
    \/ CallPaste
    \/ PasteGuard
    \/ PasteSave
    \/ PasteSet
    \/ PasteSimulate
    \/ PasteRestore
    \/ PasteReturned
    \/ CallProcess
    \/ CopySelectedText
    \/ ReformatWithGemini
    \/ ProcessPasted
    \/ ProcessReturned
    \/ TranscribeFile

SpecClipboard == Init /\ [][ClipboardNext]_vars

\* the paste threads of two transcriptions that finish close together
PoolNext ==
    \/ ProcessorInit
    \/ \E w \in PasteWorkers : PoolStart(w)
    \/ \E w \in PasteWorkers : PoolSave(w)
    \/ \E w \in PasteWorkers : PoolSet(w)
    \/ \E w \in PasteWorkers : PoolSimulate(w)
    \/ \E w \in PasteWorkers : PoolRestore(w)

SpecPool == Init /\ [][PoolNext]_vars

\* the GUI process: the ReformatterController started as a service, and the
\* ShortcutRecorderThread of the settings dialog recording one shortcut
HookNext ==
    \/ ReformatterStart
    \/ HoldPressKey
    \/ RepeatKey
    \/ OnCtrlPressLocked
    \/ ReleaseKey
    \/ UnheardKey
    \/ \E tm \in timers : TimerFires(tm)
    \/ WorkerDone
    \/ WorkerResetsWarned
    \/ Tick
    \/ ShortcutStartRecording
    \/ ShortcutHook
    \/ ShortcutStopRecording
    \/ ShortcutLoopExit
    \/ ShortcutFinally

SpecHooks == Init /\ [][HookNext]_vars

\* The reformatting workflow end to end: each run_gemini_reformatting worker
\* started by a trigger calls process() once and reopens the gate when it has
\* returned.  process() is the only operation on the clipboard here, so ops
\* counts its calls; a worker calls it when the worker before has ended.
RECURSIVE TrigsUpTo(_)
TrigsUpTo(h) == IF h = 0 THEN 0 ELSE trigs[h] + TrigsUpTo(h - 1)
WorkersStarted == IF gemini THEN TrigsUpTo(MaxHolds) ELSE 0
WorkersEnded == WorkersStarted - workers
ProcessCalled == ops
ProcessReturnedTo == IF clipPc \in {"new", "idle"} THEN ops ELSE ops - 1

\* a worker whose finally clause does not wait for process()
WorkerEnds_Detached == WorkerDone

\* success = self.gemini_reformatter.process(), called by a worker
WorkerCallsProcess ==
    /\ ProcessCalled < WorkersStarted
    /\ WorkersEnded = ProcessCalled
    /\ CallProcess

\* the key goes down, once
WorkflowPressKey == holdId < MaxWorkflowHolds /\ PressKey

\* finally: the gate is reopened, once process() has returned or raised
WorkerEnds ==
    /\ WorkersEnded < ProcessReturnedTo
    /\ WorkerDone
    /\ procResult \in outcomes'

WorkflowNext ==
    \/ ReformatterStart
    \/ ProcessorInit
    \/ WorkflowPressKey
    \/ RepeatKey
    \/ OnCtrlPressLocked
    \/ ReleaseKey
    \/ \E tm \in timers : TimerFires(tm)
    \/ Tick
    \/ WorkerCallsProcess
    \/ CopySelectedText
    \/ ReformatWithGemini
    \/ PasteGuard
    \/ PasteSave
    \/ PasteSet
    \/ PasteSimulate
    \/ PasteRestore
    \/ PasteReturned
    \/ ProcessPasted
    \/ ProcessReturned
    \/ WorkerEnds
    \/ WorkerResetsWarned

SpecWorkflow == Init /\ [][WorkflowNext]_vars

\* the steps a thread takes by itself once called: every thread of the
\* process is scheduled again and again; the device, the keyboard library
\* and the callers are not obliged to do anything
ThreadStep(t) ==
    \/ KbToggle(t) \/ AudioToggle(t) \/ CallbackReturned(t) \/ CallbackRaised(t)
    \/ StartRecording(t) \/ StopRecording(t) \/ StopJoin(t) \/ StopSave(t)
    \/ (t = "main" /\ (CtlStart \/ MainLoopEnds \/ StartFinally \/ MainExit))
    \/ CtlStopEnter(t) \/ CtlIsRecording(t) \/ CtlRecordingStopped(t)
    \/ KbStop(t) \/ KbJoin(t) \/ KbUnhook(t) \/ Cleanup(t) \/ CtlStopExit(t)

\* the same system with one press of the hotkey and one call of stop() from
\* the second caller beside the main thread's own
LiveHotkeyTrigger(h) == triggers < MaxLiveTriggers /\ HotkeyTrigger(h)
LiveStopCall(c) == stopCalls < MaxLiveStopCalls /\ CtlStopCall(c)
LiveNext ==
    \/ \E h \in CtlHooks : LiveHotkeyTrigger(h)
    \/ \E h \in CtlHooks : KbToggle(h)
    \/ \E h \in CtlHooks : AudioToggle(h)
    \/ \E h \in CtlHooks : CallbackReturned(h)
    \/ \E h \in CtlHooks : CallbackRaised(h)
    \/ \E t \in Workers : StartRecording(t)
    \/ \E t \in Workers : StopRecording(t)
    \/ \E t \in Workers : StopJoin(t)
    \/ \E t \in Workers : StopSave(t)
    \/ \E k \in CapIds : CapOpen(k)
    \/ \E k \in CapIds : CapLoop(k)
    \/ \E k \in CapIds : CapRead(k)
    \/ MonitorRegister
    \/ MonitorExit
    \/ CtlStart
    \/ MainLoopEnds
    \/ Sigint
    \/ StartFinally
    \/ MainExit
    \/ \E c \in Ctls : LiveStopCall(c)
    \/ \E c \in Ctls : CtlStopEnter(c)
    \/ \E c \in Ctls : CtlIsRecording(c)
    \/ \E c \in Ctls : CtlRecordingStopped(c)
    \/ \E c \in Ctls : KbStop(c)
    \/ \E c \in Ctls : KbJoin(c)
    \/ \E c \in Ctls : KbUnhook(c)
    \/ \E c \in Ctls : Cleanup(c)
    \/ \E c \in Ctls : CtlStopExit(c)

LiveSpec == Init /\ [][LiveNext]_vars /\ \A t \in Workers : WF_vars(ThreadStep(t))

\* the lock whose holder thread t is waiting for: Free if t is not blocked
LockWanted(t) ==
    IF pc[t] \in {"start_wait", "stop_wait", "ctl_isrec", "isrec_wait"} THEN audio_lock
    ELSE IF pc[t] \in {"kb_toggle", "ctl_kbstop", "kbs_wait"} THEN kb_lock
    ELSE IF pc[t] = "ctl_lock" THEN _shutdown_lock
    ELSE Free

\* the thread reached from t by following n waits, Free if the chain ends before
RECURSIVE WaitChain(_, _)
WaitChain(t, n) == IF n = 0 \/ t = Free THEN t ELSE WaitChain(LockWanted(t), n - 1)

CyclicWait == \E t \in Threads : \E n \in 1..Cardinality(Threads) : WaitChain(t, n) = t

\* the controller with its hook thread, both callers of stop(), the capture
\* threads and the StatusMonitor thread
LockNext ==
    \/ \E h \in CtlHooks : CtlHotkeyTrigger(h)
    \/ \E h \in CtlHooks : KbToggle(h)
    \/ \E h \in CtlHooks : AudioToggle(h)
    \/ \E h \in CtlHooks : CallbackReturned(h)
    \/ \E h \in CtlHooks : CallbackRaised(h)
    \/ \E t \in Workers : StartRecording(t)
    \/ \E t \in Workers : StopRecording(t)
    \/ \E t \in Workers : StopJoin(t)
    \/ \E t \in Workers : StopSave(t)
    \/ \E k \in CapIds : CapOpen(k)
    \/ \E k \in CapIds : CapLoop(k)
    \/ \E k \in CapIds : CapRead(k)
    \/ MonitorRegister
    \/ MonitorExit
    \/ CtlStart
    \/ MainLoopEnds
    \/ Sigint
    \/ StartFinally
    \/ MainExit
    \/ \E s \in Pollers : StatusPoll(s)
    \/ \E s \in Pollers : StatusAcquire(s)
    \/ \E s \in Pollers : StatusRelease(s)
    \/ \E c \in Ctls : LiveStopCall(c)
    \/ \E c \in Ctls : CtlStopEnter(c)
    \/ \E c \in Ctls : CtlIsRecording(c)
    \/ \E c \in Ctls : CtlRecordingStopped(c)
    \/ \E c \in Ctls : KbStop(c)
    \/ \E c \in Ctls : KbJoin(c)
    \/ \E c \in Ctls : KbUnhook(c)
    \/ \E c \in Ctls : Cleanup(c)
    \/ \E c \in Ctls : CtlStopExit(c)

SpecLocks == Init /\ [][LockNext]_vars

\* ------------------------------------------------------------------- claims
capturing == {k \in CapIds : InLoop(k)}
sessionVars == <<_recording, _frames, _thread, audio_lock, cap, started, wav, saves, jobs>>

\* C1: a start_recording made while the session is active changes nothing
\* (no buffer reset, no new capture thread), and a stop_recording made while
\* it is inactive changes nothing and returns at once (no join, no file, no
\* transcription job).
C1_RedundantStartStopAreNoOps ==
    [][\A t \in Threads :
          /\ (pc[t] = "start_wait" /\ pc'[t] # "start_wait" /\ _recording)
                => (UNCHANGED sessionVars /\ pc'[t] = ret[t])
          /\ (pc[t] = "stop_wait" /\ pc'[t] # "stop_wait" /\ ~_recording)
                => (UNCHANGED sessionVars /\ pc'[t] = ret[t])]_vars

\* both redundant calls have been made and ignored, the first with frames buffered
C1_Witness == warned = {"start", "stop"} /\ saves > 0

\* C2: at most one capture thread is inside the capture loop at any time.
C2_AtMostOneCaptureThreadInLoop == Cardinality(capturing) <= 1

InCallback == {"start_wait", "stop_wait", "stop_join", "stop_save", "cb_ret", "cb_except"}
KbCritical == InCallback \cup {"cb_call"}

\* C3: the callback is invoked exactly once per trigger, the invocations never
\* overlap, and the values passed alternate True, False, True, ... starting
\* with True.
C3_CallbackOncePerTriggerAlternating ==
    /\ \A i \in DOMAIN cbLog : cbLog[i] = (i % 2 = 1)
    /\ Cardinality({h \in Hooks : pc[h] \in KbCritical}) <= 1
    /\ Len(cbLog) + Cardinality({h \in Hooks : pc[h] \in {"kb_toggle", "cb_call"}}) = triggers

\* a second trigger waits for the mutex while the callback of another runs,
\* after two invocations
C3_Witness ==
    /\ cbLog = <<TRUE, FALSE>>
    /\ \E h, g \in Hooks : pc[h] \in InCallback /\ pc[g] = "kb_toggle"

\* C4: an exception raised by the callback never reaches the hook caller, the
\* mutex is released, recording_state keeps its flipped value, and later
\* triggers are processed.
C4_CallbackExceptionContained ==
    /\ ~escaped
    /\ (\A h \in Hooks : pc[h] \notin KbCritical) => kb_lock = Free
    /\ recording_state =
          ((Len(cbLog) + Cardinality({h \in Hooks : pc[h] = "cb_call"})) % 2 = 1)
    /\ \A i \in cbErrors : i <= Len(cbLog) /\ cbLog[i] = TRUE

\* an invocation raised, and a later trigger has run its callback to the end
C4_Witness ==
    /\ \E i \in cbErrors : Len(cbLog) > i
    /\ \A h \in Hooks : pc[h] = "idle"
    /\ recording_state = FALSE

FullWithRecording ==
    <<"stopping_recording", "recording_stopped", "stopping_keyboard", "hooks_removed",
      "cleanup", "complete">>
FullNoRecording == <<"stopping_keyboard", "hooks_removed", "cleanup", "complete">>
ShutdownComplete == shutdownLog \in {FullWithRecording, FullNoRecording}

\* C5: however often and from however many threads stop() is called, the
\* shutdown sequence runs exactly once, it is complete before any call
\* returns, and a call made after it began returns without any effect.
C5_ShutdownRunsOnce ==
    /\ [](/\ \A i, j \in DOMAIN shutdownLog : shutdownLog[i] = shutdownLog[j] => i = j
          /\ returned > 0 => ShutdownComplete)
    /\ [][\A c \in Ctls :
            (pc[c] = "ctl_lock" /\ pc'[c] # "ctl_lock" /\ ~ctl_running)
              => /\ pc'[c] = CtlRet(c)
                 /\ UNCHANGED <<audioVars, kbVars, ctl_running, _shutdown_lock,
                                shutdownLog>>]_vars

\* the main thread's call and both calls of the second caller have returned
C5_Witness == returned = 3 /\ ShutdownComplete

\* C6: stop() stops the active recording, then the hotkey monitor, then cleans
\* up: its steps are logged in that order, and when the monitor is being
\* stopped the session that was active when the shutdown began is over.
C6_ShutdownOrder ==
    /\ \E full \in {FullWithRecording, FullNoRecording} :
          \E n \in 0..Len(full) : shutdownLog = SubSeq(full, 1, n)
    /\ (\E i \in DOMAIN shutdownLog : shutdownLog[i] = "stopping_keyboard")
          => ~(_recording /\ entrySession # 0 /\ started = entrySession)

\* a shutdown that found a recording active has run to its end
C6_Witness == shutdownLog = FullWithRecording /\ entrySession # 0 /\ saves > 0

\* C7: every call of stop() returns, also when the capture thread never leaves
\* its read and the monitor thread never exits, and without waiting for
\* transcription jobs.
C7_StopTerminates ==
    /\ (pc["main"] = "ctl_lock") ~> (pc["main"] = "m_after")
    /\ (pc["gui"] = "ctl_lock") ~> (pc["gui"] = "idle" \/ exited)

\* stop() has returned with the capture thread still in its read, the monitor
\* thread still in its loop and a transcription job in flight
C7_Witness ==
    /\ pc["main"] = "m_after"
    /\ ShutdownComplete
    /\ \E k \in CapIds : cap[k] = "read"
    /\ monitor = "loop"
    /\ jobs > 0

\* C8: after a SIGINT in the main loop the process exits only when the
\* shutdown sequence has run to its end (recording stopped and flushed,
\* hooks removed, cleanup).
C8_SigintShutsDownBeforeExit ==
    exited => /\ ShutdownComplete
              /\ ~ctl_running
              /\ entrySession # 0 => started > entrySession \/ ~_recording

\* the process has exited on signal_handler's SystemExit after flushing the
\* recording that was active
C8_Witness ==
    /\ exited
    /\ mainExc = "SystemExit"
    /\ shutdownLog = FullWithRecording
    /\ saves > 0

HoldIds == 1..holdId
HeldFor(h) == holdEnd[h] - holdStart[h]

\* C9: a hold released strictly before hold_duration has passed since its
\* key-down never triggers the workflow, whatever timers fire during it or
\* later; the workflow is only ever triggered while the key is down.
C9_EarlyReleaseNeverTriggers ==
    /\ \A h \in HoldIds :
          (holdEnd[h] # None /\ HeldFor(h) < hold_duration) => trigs[h] = 0
    /\ \A h \in HoldIds : trigs[h] > 0 /\ holdEnd[h] = None => now - holdStart[h] >= hold_duration
    /\ ctrl_pressed => keyDown

\* the timer of an early-released hold has fired without effect while the key
\* was down again, and that second hold was released early too
C9_Witness ==
    /\ staleNoop
    /\ holdId = 2
    /\ \A h \in HoldIds : holdEnd[h] # None /\ HeldFor(h) < hold_duration /\ trigs[h] = 0
    /\ timers = {}

\* C10: the workflow is triggered exactly once for a hold: no key-down to
\* key-up interval, however long, sees a second trigger.
C10_TriggeredOncePerHold == \A h \in HoldIds : trigs[h] <= 1

\* C11: whenever a triggered workflow has ended, on whichever path, the gate
\* monitoring_hotkey is open: it is set by the step that ends a workflow, and
\* it is open whenever no workflow is in flight (also without a reformatter).
C11_GateReopenedOnEveryPath ==
    /\ [](workers = 0 => monitoring_hotkey)
    /\ [][workers' < workers => monitoring_hotkey']_vars

\* a workflow that raised and one that succeeded have ended, none is in flight
C11_Witness ==
    /\ {"raised", "success"} \subseteq outcomes
    /\ workers = 0
    /\ monitoring_hotkey

\* C12: at most one workflow is in flight, the gate is closed while one is,
\* and no timer is armed while one is.
C12_OneWorkflowGateClosed ==
    /\ workers <= 1
    /\ workers > 0 => ~monitoring_hotkey
    /\ ~armedInFlight

\* C13: when paste_text has returned, True or False, the clipboard holds what
\* it held when paste_text was entered.
C13_ClipboardRestoredAfterPaste == clipPc = "p_ret" => clipboard = before

\* C14: when process() has returned True with no step failing, the clipboard
\* holds what it held when process() was entered, and the text pasted last is
\* the reformatter's output.
C14_WorkflowRestoresPreHoldClipboard ==
    (clipPc = "g_ret" /\ procResult = "success" /\ faults = {})
      => /\ clipboard = preHold
         /\ delivered # <<>> /\ delivered[Len(delivered)] = Reformatted

FailedResults == {"no_selection", "cloud_failed", "paste_failed"}

\* C15: when process() has returned False (nothing copied, cloud call failed,
\* paste failed) and no write that restores the clipboard has itself failed,
\* the clipboard holds what it held when process() was entered, the empty
\* string included.
C15_FailedWorkflowRestoresClipboard ==
    (clipPc = "g_ret" /\ procResult \in FailedResults /\ "restore" \notin faults)
      => clipboard = preHold

\* some segment of the last transcription has a character that is not a blank
NonBlank == \E i \in DOMAIN segments : \E j \in DOMAIN segments[i] : segments[i][j] # " "

\* C16: a paste thread is started for a transcription exactly if a paster is
\* configured, the transcription did not fail and its stripped text is not
\* empty; the text handed to paste_text is then not empty; a transcription
\* without paste changes neither the clipboard nor what has been pasted.
C16_PasteIffPasterAndText ==
    /\ [](/\ caller = "transcribe" => (txPasted <=> (paster /\ ~txFailed /\ NonBlank))
          /\ (caller = "transcribe" /\ txPasted) => (text # <<>> /\ text = Strip(text)))
    /\ [][(clipPc = "idle" /\ caller' = "transcribe" /\ ~txPasted')
            => (clipPc' = "idle" /\ UNCHANGED <<clipboard, delivered>>)]_vars

\* with a paster configured, a transcription with text has been pasted and a
\* later one that failed has not
C16_Witness ==
    /\ paster
    /\ caller = "transcribe"
    /\ clipPc = "idle"
    /\ ops = MaxOps
    /\ txFailed
    /\ ~txPasted
    /\ delivered = << <<"a">> >>

\* C17: a stop_recording that finds the frame buffer empty writes no file and
\* starts no transcription, returns to its caller, and leaves the recorder
\* inactive with its lock free, ready for the next start.
C17_EmptyBufferStop ==
    [][\A t \in Threads :
          (pc[t] = "stop_save" /\ pc'[t] # "stop_save" /\ _frames = <<>>)
            => /\ UNCHANGED <<wav, saves, jobs>>
               /\ pc'[t] = ret[t]
               /\ ~_recording'
               /\ audio_lock' = Free]_vars

\* after a stop that found no data, with no file ever written, the second
\* recording is running
C17_Witness ==
    /\ "nodata" \in warned
    /\ saves = 0
    /\ wav = <<>>
    /\ started = 2
    /\ _recording
    /\ cap[2] = "read"

C19_OneJobPerFile == jobs <= 1

\* C20: when the capture thread of the current session has ended, which
\* without a stop call it only does on a device error, at open or at read,
\* the session is idle.
C20_DeviceErrorForcesIdle ==
    \A k \in CapIds : (cap[k] = "done" /\ _thread = k) => ~_recording
\* C21: a flushed file of N >= 1 chunks holds N * 1024 * 2 bytes of audio
\* data, and its duration d, the sample frames over the frame rate of its
\* header, satisfies d * sample_rate = N * chunk_size.
C21_WavLengthAndDuration ==
    wav # <<>> =>
        /\ WavDataBytes = Len(wav) * 1024 * 2
        /\ WavSampleFrames * sample_rate = Len(wav) * chunk_size * WavParams.framerate

\* files of one chunk and of more than one are written
C21_Witness == saves > 1 /\ Len(wav) > 1
\* the steps paste_text has taken in the current operation
PasteSteps == SelectSeq(steps, LAMBDA e : e[1] \notin {"copy", "cloud"})
Took(step, ok) == \E i \in DOMAIN PasteSteps : PasteSteps[i] = <<step, ok>>
LastStep == PasteSteps[Len(PasteSteps)]

\* C24: when saving the clipboard fails, paste_text returns False with the
\* clipboard as it was: the failed save is the last step it took, no
\* set_clipboard, simulated paste or restore follows.
C24_SaveFailureAborts ==
    (clipPc = "p_ret" /\ Took("save", FALSE)) =>
        /\ ~result
        /\ clipboard = before
        /\ LastStep = <<"save", FALSE>>

\* the save failed with something on the clipboard
C24_Witness == clipPc = "p_ret" /\ Took("save", FALSE) /\ clipboard # <<>>

\* C25: after a failed simulated paste, restore_clipboard is called before
\* paste_text returns False; after a successful one paste_text returns True
\* even if the restoration fails.
C25_RestoreAfterFailedPaste ==
    clipPc = "p_ret" =>
        /\ Took("paste", FALSE) =>
              /\ ~result
              /\ LastStep[1] = "restore"
              /\ LastStep[2] => clipboard = before
        /\ Took("paste", TRUE) => result

\* a failed paste followed by a restore that put the clipboard back
C25_Witness ==
    /\ clipPc = "p_ret"
    /\ Took("paste", FALSE)
    /\ LastStep = <<"restore", TRUE>>
    /\ clipboard = before
    /\ before # text

PasteOrder == <<"save", "set", "paste", "wait", "restore">>
InOrder(i) ==
    /\ i <= Len(PasteOrder)
    /\ PasteSteps[i][1] = PasteOrder[i]
    /\ \A j \in 1..(i - 1) : PasteSteps[j][2]

\* C29 as stated: the steps of paste_text are taken in the order save, set,
\* paste, wait, restore, each only after the one before it has succeeded.
C29_EachStepAfterSuccess == \A i \in DOMAIN PasteSteps : InOrder(i)

\* C29: the steps of paste_text are taken in the order save, set, paste,
\* wait, restore, each only after the one before it has succeeded, except
\* that a failed simulated paste is followed at once by the restore; a
\* restore never comes before the simulated paste.
C29_PasteStepOrder ==
    \A i \in DOMAIN PasteSteps :
        \/ InOrder(i)
        \/ /\ i = 4
           /\ Len(PasteSteps) = 4
           /\ PasteSteps[4][1] = "restore"
           /\ PasteSteps[3] = <<"paste", FALSE>>
           /\ InOrder(3)

\* all five steps were taken and paste_text returned True
C29_Witness == clipPc = "p_ret" /\ Len(PasteSteps) = 5 /\ result
\* C26: a timer armed before set_hold_duration(d) evaluates against the
\* duration in force when it was armed: when it ends it triggers the workflow
\* if and only if the key is still held and has been for that duration.
C26_ArmedTimerKeepsThreshold ==
    [][\A tm \in timers :
          tm \notin timers' =>
              ((trigs' # trigs) <=> (StillPressed /\ now - press_start_time >= tm.dur))]_vars

\* C27: a key-down event that finds the gate closed changes neither
\* ctrl_pressed nor press_start_time nor the armed timers, and between a
\* closing of the gate and its next reopening the message is printed at most
\* once.
C27_ClosedGateIgnoresKeyDown ==
    /\ [](msgs <= 1)
    /\ [][(~monitoring_hotkey /\ (holdId' # holdId \/ msgs' # msgs))
            => UNCHANGED <<ctrl_pressed, press_start_time, timers, armed, hookPc>>]_vars
\* C30: in every execution of the reformatting workflow the selection copy
\* completes before the cloud request is sent, the cloud's answer is received
\* before the paste begins, and the paste with its clipboard restore has
\* completed (process() has returned) before the worker reopens the gate.
C30_WorkflowOrder ==
    /\ [](\A i \in DOMAIN steps :
            /\ steps[i][1] = "cloud" => (i = 2 /\ steps[1] = <<"copy", TRUE>>)
            /\ steps[i][1] \notin {"copy", "cloud"} => (i > 2 /\ steps[2] = <<"cloud", TRUE>>))
    /\ [][workers' < workers =>
            /\ WorkersEnded' <= ProcessReturnedTo
            /\ procResult \in outcomes'
            /\ monitoring_hotkey'
            /\ (procResult = "success" => steps[Len(steps)][1] = "restore")]_vars

\* a workflow has pasted the reformatted text, restored the clipboard and
\* reopened the gate
C30_Witness ==
    /\ "success" \in outcomes
    /\ workers = 0
    /\ monitoring_hotkey
    /\ delivered = <<Reformatted>>
    /\ Len(steps) = 7

\* C22: KeyboardRecorder.stop() can be called any number of times, also
\* without a start() before it: a call leaves only through keyboard.unhook_all()
\* (whether the join found the monitor thread ended or gave up after its 2
\* seconds), and when it returns the monitor is not running, the hotkey is not
\* registered and the lock is free; a start() that finds the monitor running
\* starts no thread.
C22_StopIdempotentStartGuarded ==
    /\ [](\A t \in Clients : pc[t] \in {"kb_join", "kb_unhook"} => ~kb_running /\ kb_lock = t)
    /\ [][\A t \in Clients :
            /\ (pc[t] \in {"ctl_kbstop", "kb_join"} /\ pc'[t] # pc[t])
                    => pc'[t] \in {"kb_join", "kb_unhook"}
            /\ (pc[t] = "kb_unhook" /\ pc'[t] # pc[t])
                    => pc'[t] = "idle" /\ ~kb_running' /\ ~hooked' /\ kb_lock' = Free
            /\ (pc[t] = "kbs_wait" /\ pc'[t] # pc[t] /\ kb_running)
                    => UNCHANGED <<kb_running, monitor, strays>>]_vars

\* a stop() has returned although its join gave up on the monitor thread, which
\* had registered the hotkey and is still in its loop
C22_Witness ==
    /\ \A t \in Clients : pc[t] = "idle"
    /\ ~kb_running
    /\ monitor = "loop"
    /\ ~hooked
    /\ calls >= 2


\* C23 as stated: every trigger invokes, once and with the new state, the
\* callback that the last set_callback to return before the trigger began
\* had stored.
C23_InvokesCallbackSetBefore ==
    /\ Len(invoked) <= triggers
    /\ \A i \in 1..Len(invoked) :
          /\ invoked[i].cb = Head(invoked[i].writes)
          /\ invoked[i].state = (i % 2 = 1)

\* C23: every trigger invokes, once and with the new state, the callback
\* stored last when it makes its invocation: the one stored before the trigger
\* began unless a set_callback ran between its beginning and its invocation,
\* and then the one of the last such call.
C23_LastWriterWins ==
    /\ Len(invoked) <= triggers
    /\ \A i \in 1..Len(invoked) :
          /\ invoked[i].cb = invoked[i].writes[Len(invoked[i].writes)]
          /\ invoked[i].state = (i % 2 = 1)

\* a trigger that began after set_callback("f") had returned invoked "g",
\* stored while the trigger was under way
C23_Witness ==
    \E i \in 1..Len(invoked) :
        /\ invoked[i].writes = <<"f", "g">>
        /\ invoked[i].cb = "g"
        /\ kb_running


\* C28: in no reachable state do the hook thread, the callers of stop(), the
\* StatusMonitor thread and the callers of the recorder wait for each other in
\* a circle: following, from any thread, the holder of the lock it waits for
\* never leads back to that thread.
C28_NoCyclicWait == ~CyclicWait

\* the hook thread holds the monitor's lock and waits for the recorder's, which
\* the main thread holds inside stop() together with the shutdown lock, while
\* the StatusMonitor thread and the second caller of stop() wait as well
C28_Witness ==
    /\ kb_lock = "h1" /\ pc["h1"] \in {"start_wait", "stop_wait"}
    /\ audio_lock = "main" /\ _shutdown_lock = "main"
    /\ pc["status"] = "isrec_wait"
    /\ pc["gui"] = "ctl_lock"


\* C31: every write to the shared flags is made by a thread that holds the
\* owning component's lock: _recording changes only in a step of a thread that
\* has taken AudioRecorder._thread_lock in start_recording or stop_recording,
\* recording_state only in a step of a hook thread that has taken
\* KeyboardRecorder._thread_lock.
C31_SharedFlagWritesUnderLock ==
    [][/\ (_recording' # _recording)
            => \E t \in Threads : /\ pc[t] \in {"start_wait", "stop_wait"}
                                  /\ pc'[t] # pc[t]
                                  /\ audio_lock = Free
       /\ (recording_state' # recording_state)
            => \E h \in Hooks : pc[h] = "kb_toggle" /\ kb_lock = Free /\ kb_lock' = h]_vars


\* C34: when stop_recording on an active session completes, the frame buffer
\* is empty.
C34_BufferEmptyAfterStop ==
    [][\A t \in Threads : (pc[t] = "stop_save" /\ pc'[t] # pc[t]) => _frames' = <<>>]_vars


\* C32: recording_state changes only in toggle_recording, one flip for each
\* hotkey trigger: it is True exactly when an odd number of triggers have got
\* past the flip, and no step of start(), stop(), set_callback(), get_state()
\* or of the recorder behind the callback changes it.
C32_OnlyToggleFlipsState ==
    /\ [](recording_state
            = ((triggers - Cardinality({h \in Hooks : pc[h] = "kb_toggle"})) % 2 = 1))
    /\ [][(recording_state' # recording_state)
            => \E h \in Hooks : pc[h] = "kb_toggle" /\ pc'[h] = "cb_call"]_vars

\* one trigger has set the state, a callback set after start() was invoked
\* with it, and the state is still set after a stop() has returned
C32_Witness ==
    /\ recording_state
    /\ triggers = 1
    /\ ~kb_running /\ ~hooked
    /\ \E i \in 1..Len(invoked) : invoked[i].cb = "f" /\ invoked[i].state
    /\ \A t \in Clients \cup CtlHooks : pc[t] = "idle"


\* C33: what a stop_recording writes to the file are the chunks read by the
\* capture thread of the session it ends, and no chunk appended by the
\* capture thread of another session.
C33_FileHoldsSessionChunksOnly ==
    [][(saves' # saves) => \A i \in 1..Len(wav') : wav'[i] = _thread]_vars


\* C35: before RecordingController.stop() is called, whenever no hotkey
\* trigger is being processed, recording_state equals the recorder's
\* _recording.
C35_StateMirrorsRecording ==
    (stopCalls = 0 /\ \A t \in Hooks \cup Ctls : pc[t] \in {"idle", "m_new", "m_loop"})
        => recording_state = _recording


\* C36: once the shutdown sequence of RecordingController.stop() has completed
\* and stop() has returned, with the monitor thread ended and the hotkey no
\* longer registered, the recorder is not recording, whatever hotkey triggers
\* were under way during the shutdown.
C36_InactiveAfterStop ==
    (/\ \E i \in 1..Len(shutdownLog) : shutdownLog[i] = "complete"
     /\ monitor = "done" /\ ~hooked) => ~_recording


\* C37: every paste thread's keystroke pastes that thread's own transcript,
\* and what a thread has saved is not replaced by the save of another thread
\* while the first is between its save and its restore.
C37_PasteThreadsDoNotInterfere ==
    /\ [](\A w \in PasteWorkers : pw[w].sent # Unset => pw[w].sent = Transcript(w))
    /\ [][\A w \in PasteWorkers :
            (pw[w].pc = "p_save" /\ pw'[w].pc = "p_set")
                => \A u \in PasteWorkers \ {w} :
                       pw[u].pc \in {"p_set", "p_send", "p_restore"}
                           => _saved_clipboard' = _saved_clipboard]_vars


C39_IndicatorFollowsSession ==
    LET active == /\ _recording
                  /\ _thread # NoThread /\ cap[_thread] # "unstarted"
                  /\ \A t \in Threads : pc[t] \notin {"stop_wait", "stop_join", "stop_save"}
        stopping == \E t \in Threads : pc[t] \in {"stop_wait", "stop_join", "stop_save"}
    IN  /\ active => indicator = "recording"
        /\ (transcribing > 0 /\ ~_recording /\ ~stopping) => indicator = "transcribing"


\* C40: once ReformatterController.start() has registered its hooks they stay
\* registered, so ctrl key events keep reaching on_ctrl_press and
\* on_ctrl_release, whatever a ShortcutRecorderThread or a KeyboardRecorder in
\* the same process does.
C40_ReformatterHooksStay == hookPc # "unhooked" => ctrl_hooks

====
